---- MODULE Spec2Model ----
(***************************************************************************)
(* Model of the lambda_api prediction service (src/lambda_api):            *)
(* request validation (validate_body, validate_data, list_check,           *)
(* are_types), the response builder (api_return) and the prediction        *)
(* pipeline (validate_event, predict, make_prediction).                    *)
(*                                                                         *)
(* Python values are tagged records; text is a sequence of one-character   *)
(* strings, so that json.dumps / json.loads are modelled as a real         *)
(* serializer and a real parser.                                           *)
(***************************************************************************)
EXTENDS Integers, Sequences, FiniteSets, TLC

(***************************************************************************)
(* Bounds of the model.                                                    *)
(***************************************************************************)
\* longest list drawn as an input (request body, data value, candidate)
MaxListLen == 2
\* largest status code handed to the status tests
MaxStatusCode == 700
\* invocations of predict that one process serves
MaxInvocations == 3
\* runs of deploy_api_endpoint on one account
MaxRuns == 3
\* longest time, in seconds, one get_function call takes
MaxCallSeconds == 1

(***************************************************************************)
(* Python values.                                                          *)
(***************************************************************************)
PyInt(n) == [t |-> "int", v |-> n]
\* a float with the exact decimal value m / 10^e, e >= 1 (2.0 is m=20, e=1)
PyFloat(m, e) == [t |-> "float", m |-> m, e |-> e]
PyBool(b) == [t |-> "bool", v |-> b]
PyNone == [t |-> "none"]
PyStr(chars) == [t |-> "str", v |-> chars]
PyList(items) == [t |-> "list", v |-> items]
\* a dict is its items in insertion order: a sequence of [k |-> text, v |-> value]
PyDict(items) == [t |-> "dict", v |-> items]
\* a set of integers, as the sequence of its elements in iteration order: a
\* value that JSON has no form for
PySet(items) == [t |-> "set", v |-> items]
\* a list that holds itself as its last element: l = [1]; l.append(l)
PyCircular == [t |-> "circular"]

RECURSIVE Pow10(_)
Pow10(e) == IF e = 0 THEN 1 ELSE 10 * Pow10(e - 1)

RECURSIVE NormFloat(_, _)
\* shortest decimal form of m / 10^e that keeps one fractional digit
NormFloat(m, e) ==
    IF e > 1 /\ m % 10 = 0 THEN NormFloat(m \div 10, e - 1) ELSE PyFloat(m, e)

\* bool(x): Python truth value of a value
Truthy(x) ==
    CASE x.t = "int" -> x.v # 0
      [] x.t = "float" -> x.m # 0
      [] x.t = "bool" -> x.v
      [] x.t = "none" -> FALSE
      [] x.t = "str" -> Len(x.v) > 0
      [] x.t = "list" -> Len(x.v) > 0
      [] x.t = "dict" -> Len(x.v) > 0
      [] x.t = "set" -> Len(x.v) > 0
      [] x.t = "circular" -> TRUE

\* type(x).__name__, as it appears in exception messages
TypeName(x) ==
    CASE x.t = "none" -> "NoneType"
      [] x.t = "circular" -> "list"
      [] OTHER -> x.t

(***************************************************************************)
(* Outcome of a call: a returned value or a raised exception.              *)
(***************************************************************************)
Return(val) == [kind |-> "return", val |-> val, type |-> "", msg |-> ""]
Raise(type, msg) == [kind |-> "raise", val |-> PyNone, type |-> type, msg |-> msg]

(***************************************************************************)
(* json.dumps(value, default=str)                                          *)
(***************************************************************************)
DigitChars == <<"0", "1", "2", "3", "4", "5", "6", "7", "8", "9">>
Digits == {DigitChars[i] : i \in 1..10}
DigitVal(c) == CHOOSE d \in 0..9 : DigitChars[d + 1] = c

RECURSIVE NatText(_)
NatText(n) ==
    IF n < 10 THEN <<DigitChars[n + 1]>>
    ELSE NatText(n \div 10) \o <<DigitChars[(n % 10) + 1]>>

IntText(n) == IF n < 0 THEN <<"-">> \o NatText(0 - n) ELSE NatText(n)

RECURSIVE FracText(_, _)
\* the e fractional digits of f, zero padded on the left
FracText(f, e) ==
    IF e = 0 THEN <<>> ELSE FracText(f \div 10, e - 1) \o <<DigitChars[(f % 10) + 1]>>

\* float.__repr__ for the exactly representable decimals of the model
FloatText(m, e) ==
    LET a == IF m < 0 THEN 0 - m ELSE m
    IN  (IF m < 0 THEN <<"-">> ELSE <<>>)
        \o NatText(a \div Pow10(e)) \o <<".">> \o FracText(a % Pow10(e), e)

\* a JSON string literal; the model's alphabet has no character to escape
StrText(chars) == <<"\"">> \o chars \o <<"\"">>

RECURSIVE SetItemsText(_, _)
SetItemsText(items, i) ==
    IF i > Len(items) THEN <<>>
    ELSE (IF i > 1 THEN <<",", " ">> ELSE <<>>)
         \o IntText(items[i].v) \o SetItemsText(items, i + 1)

\* str(x) of a set of integers, the text that default=str hands to the encoder
SetText(items) ==
    IF Len(items) = 0 THEN <<"s", "e", "t", "(", ")">>
    ELSE <<"{">> \o SetItemsText(items, 1) \o <<"}">>

RECURSIVE dumps(_)
RECURSIVE JoinItems(_, _)
RECURSIVE JoinMembers(_, _)
JoinItems(items, i) ==
    IF i > Len(items) THEN <<>>
    ELSE (IF i > 1 THEN <<",", " ">> ELSE <<>>) \o dumps(items[i]) \o JoinItems(items, i + 1)
JoinMembers(items, i) ==
    IF i > Len(items) THEN <<>>
    ELSE (IF i > 1 THEN <<",", " ">> ELSE <<>>)
         \o StrText(items[i].k) \o <<":", " ">> \o dumps(items[i].v)
         \o JoinMembers(items, i + 1)
dumps(x) ==
    CASE x.t = "int" -> IntText(x.v)
      [] x.t = "float" -> FloatText(x.m, x.e)
      [] x.t = "bool" -> IF x.v THEN <<"t", "r", "u", "e">> ELSE <<"f", "a", "l", "s", "e">>
      [] x.t = "none" -> <<"n", "u", "l", "l">>
      [] x.t = "str" -> StrText(x.v)
      [] x.t = "list" -> <<"[">> \o JoinItems(x.v, 1) \o <<"]">>
      [] x.t = "dict" -> <<"{">> \o JoinMembers(x.v, 1) \o <<"}">>
      \* not serializable: the encoder calls default, and encodes the text
      [] x.t = "set" -> StrText(SetText(x.v))

RECURSIVE dumps_raises(_)
\* the encoder's check_circular: a container that holds itself has no
\* serialization, dumps raises ValueError
dumps_raises(x) ==
    CASE x.t = "circular" -> TRUE
      [] x.t = "list" -> \E i \in 1..Len(x.v) : dumps_raises(x.v[i])
      [] x.t = "dict" -> \E i \in 1..Len(x.v) : dumps_raises(x.v[i].v)
      [] OTHER -> FALSE

(***************************************************************************)
(* json.loads(text): the decoder's scanner.                                *)
(***************************************************************************)
WS == {" ", "\t", "\n", "\r"}
ParseOk(val, next) == [ok |-> TRUE, val |-> val, next |-> next]
ParseFail == [ok |-> FALSE, val |-> PyNone, next |-> 0]

RECURSIVE SkipWs(_, _)
SkipWs(s, i) == IF i <= Len(s) /\ s[i] \in WS THEN SkipWs(s, i + 1) ELSE i

RECURSIVE DigitsEnd(_, _)
\* first index >= i that does not hold a digit
DigitsEnd(s, i) == IF i <= Len(s) /\ s[i] \in Digits THEN DigitsEnd(s, i + 1) ELSE i

RECURSIVE DigitsVal(_, _, _)
\* value of the digits s[i..j]
DigitsVal(s, i, j) ==
    IF j < i THEN 0 ELSE DigitsVal(s, i, j - 1) * 10 + DigitVal(s[j])

\* the fraction of a number, digits s[intEnd + 1 .. fracEnd - 1]
ParseFrac(s, neg, intVal, intEnd, fracEnd) ==
    LET e == fracEnd - (intEnd + 1)
        mag == intVal * Pow10(e) + DigitsVal(s, intEnd + 1, fracEnd - 1)
    IN  ParseOk(NormFloat(IF neg THEN 0 - mag ELSE mag, e), fracEnd)

\* the integer part of a number, digits s[j .. intEnd - 1]
ParseInt(s, neg, j, intEnd) ==
    IF intEnd + 1 <= Len(s) /\ s[intEnd] = "." /\ s[intEnd + 1] \in Digits
    THEN ParseFrac(s, neg, DigitsVal(s, j, intEnd - 1), intEnd, DigitsEnd(s, intEnd + 1))
    ELSE ParseOk(PyInt(IF neg THEN 0 - DigitsVal(s, j, intEnd - 1)
                              ELSE DigitsVal(s, j, intEnd - 1)), intEnd)

\* NUMBER_RE = (-?(?:0|[1-9]\d*))(\.\d+)? ; exponents are outside the alphabet
ParseNumber(s, i) ==
    LET neg == s[i] = "-"
        j == IF neg THEN i + 1 ELSE i
    IN  IF j > Len(s) \/ s[j] \notin Digits THEN ParseFail
        ELSE ParseInt(s, neg, j, IF s[j] = "0" THEN j + 1 ELSE DigitsEnd(s, j))

RECURSIVE QuoteAt(_, _)
\* index of the first double quote at or after i, 0 when there is none
QuoteAt(s, i) ==
    IF i > Len(s) THEN 0 ELSE IF s[i] = "\"" THEN i ELSE QuoteAt(s, i + 1)

\* scanstring, called on the index after the opening quote
ParseString(s, i) ==
    LET q == QuoteAt(s, i)
    IN  IF q = 0 THEN ParseFail
        ELSE ParseOk(PyStr(SubSeq(s, i, q - 1)), q + 1)

ParseLiteral(s, i, word, val) ==
    IF i + Len(word) - 1 <= Len(s) /\ SubSeq(s, i, i + Len(word) - 1) = word
    THEN ParseOk(val, i + Len(word))
    ELSE ParseFail

RECURSIVE DictPut(_, _, _, _)
\* d[k] = v on the items of a dict: replace in place or append
DictPut(items, k, v, i) ==
    IF i > Len(items) THEN Append(items, [k |-> k, v |-> v])
    ELSE IF items[i].k = k THEN [items EXCEPT ![i] = [k |-> k, v |-> v]]
    ELSE DictPut(items, k, v, i + 1)

RECURSIVE ParseValue(_, _)
RECURSIVE ParseElems(_, _, _)
RECURSIVE ParseMembers(_, _, _)

\* JSONArray: after the element r, at the separator position k
ParseElemsSep(s, acc, r, k) ==
    IF k > Len(s) THEN ParseFail
    ELSE IF s[k] = "," THEN ParseElems(s, SkipWs(s, k + 1), Append(acc, r.val))
    ELSE IF s[k] = "]" THEN ParseOk(PyList(Append(acc, r.val)), k + 1)
    ELSE ParseFail

ParseElemsVal(s, acc, r) ==
    IF ~r.ok THEN ParseFail ELSE ParseElemsSep(s, acc, r, SkipWs(s, r.next))

\* JSONArray at the position j of an element
ParseElems(s, j, acc) == ParseElemsVal(s, acc, ParseValue(s, j))

\* JSONObject: after the member key: r, at the separator position k
ParseMembersSep(s, acc, key, r, k) ==
    IF k > Len(s) THEN ParseFail
    ELSE IF s[k] = ","
         THEN ParseMembers(s, SkipWs(s, k + 1), DictPut(acc, key.val.v, r.val, 1))
    ELSE IF s[k] = "}"
         THEN ParseOk(PyDict(DictPut(acc, key.val.v, r.val, 1)), k + 1)
    ELSE ParseFail

ParseMembersVal(s, acc, key, r) ==
    IF ~r.ok THEN ParseFail ELSE ParseMembersSep(s, acc, key, r, SkipWs(s, r.next))

\* JSONObject: after the key, at the position c of the colon
ParseMembersColon(s, acc, key, c) ==
    IF c > Len(s) \/ s[c] # ":" THEN ParseFail
    ELSE ParseMembersVal(s, acc, key, ParseValue(s, SkipWs(s, c + 1)))

ParseMembersKey(s, acc, key) ==
    IF ~key.ok THEN ParseFail ELSE ParseMembersColon(s, acc, key, SkipWs(s, key.next))

\* JSONObject at the opening quote of a key, position j
ParseMembers(s, j, acc) ==
    IF j > Len(s) \/ s[j] # "\"" THEN ParseFail
    ELSE ParseMembersKey(s, acc, ParseString(s, j + 1))

\* scan_once
ParseValue(s, i) ==
    IF i > Len(s) THEN ParseFail
    ELSE
      CASE s[i] = "\"" -> ParseString(s, i + 1)
        [] s[i] = "[" ->
             LET j == SkipWs(s, i + 1)
             IN  IF j <= Len(s) /\ s[j] = "]" THEN ParseOk(PyList(<<>>), j + 1)
                 ELSE ParseElems(s, j, <<>>)
        [] s[i] = "{" ->
             LET j == SkipWs(s, i + 1)
             IN  IF j <= Len(s) /\ s[j] = "}" THEN ParseOk(PyDict(<<>>), j + 1)
                 ELSE ParseMembers(s, j, <<>>)
        [] s[i] = "n" -> ParseLiteral(s, i, <<"n", "u", "l", "l">>, PyNone)
        [] s[i] = "t" -> ParseLiteral(s, i, <<"t", "r", "u", "e">>, PyBool(TRUE))
        [] s[i] = "f" -> ParseLiteral(s, i, <<"f", "a", "l", "s", "e">>, PyBool(FALSE))
        [] s[i] \in Digits \cup {"-"} -> ParseNumber(s, i)
        [] OTHER -> ParseFail

LoadsEnd(s, r) ==
    IF r.ok /\ SkipWs(s, r.next) = Len(s) + 1
    THEN Return(r.val)
    ELSE Raise("JSONDecodeError", "Expecting value")

\* json.loads: one value between optional white space, nothing after it
loads(s) == LoadsEnd(s, ParseValue(s, SkipWs(s, 1)))

(***************************************************************************)
(* src/lambda_api/default_values.py, src/lambda_api/model_resolver.py      *)
(***************************************************************************)
DEFAULT_TYPE_ERROR_MESSAGE == "Unknown prediction input format."
SUCCESS_STATUS_CODE == 200
CLIENT_ERROR_STATUS_CODE == 400
SERVER_ERROR_STATUS_CODE == 500
\* ALLOWED_TYPES as the type hints of the validators read it: str allowed too
ALLOWED_TYPES_with_str == {"int", "float", "str"}
ALLOWED_TYPES == {"int", "float"}

\* isinstance(x, types); bool is a subclass of int
isinstance(x, types) == x.t \in types \/ (x.t = "bool" /\ "int" \in types)

\* a placeholder that doubles: x * 2
square_lambda_doubles(x) ==
    CASE x.t = "int" -> Return(PyInt(x.v * 2))
      [] x.t = "float" -> Return(NormFloat(x.m * 2, x.e))
      [] x.t = "bool" -> Return(PyInt(IF x.v THEN 2 ELSE 0))
      [] OTHER -> Raise("TypeError",
                        "unsupported operand type(s) for *: '"
                        \o TypeName(x) \o "' and 'int'")

\* x ** 2
square_lambda(x) ==
    CASE x.t = "int" -> Return(PyInt(x.v * x.v))
      [] x.t = "float" -> Return(NormFloat(x.m * x.m, 2 * x.e))
      [] x.t = "bool" -> Return(PyInt(IF x.v THEN 1 ELSE 0))
      [] OTHER -> Raise("TypeError",
                        "unsupported operand type(s) for ** or pow(): '"
                        \o TypeName(x) \o "' and 'int'")

RECURSIVE square_map(_, _, _)
\* list(map(square_lambda, payload_list)): the first failing element raises
square_map(items, i, acc) ==
    IF i > Len(items) THEN Return(PyList(acc))
    ELSE LET r == square_lambda(items[i])
         IN  IF r.kind = "raise" THEN r ELSE square_map(items, i + 1, Append(acc, r.val))

model_prediction_map(payload_list) == square_map(payload_list.v, 1, <<>>)

(***************************************************************************)
(* src/lambda_api/utils.py                                                 *)
(***************************************************************************)
\* is_types_acc and isinstance(x, types): Python's `and` yields its left
\* operand when that operand is falsy
is_types_map(is_types_acc, x, types) ==
    IF Truthy(is_types_acc) THEN PyBool(isinstance(x, types)) ELSE is_types_acc

RECURSIVE reduce(_, _, _, _)
\* functools.reduce without initial value: the accumulator starts as the
\* first element, the function is applied from the second element on
reduce(candidate, types, i, acc) ==
    IF i > Len(candidate) THEN acc
    ELSE reduce(candidate, types, i + 1, is_types_map(acc, candidate[i], types))

are_types(candidate, types) ==
    IF Len(candidate) = 0
    THEN Raise("TypeError", "reduce() of empty iterable with no initial value")
    ELSE Return(reduce(candidate, types, 2, candidate[1]))

\* a success range that swallows the client errors
is_success_status_code_below_500(status_code) == status_code >= 200 /\ status_code < 500

\* a success test that knows one status: `status_code == 200`
is_success_status_code_only_200(status_code) == status_code = 200

is_success_status_code(status_code) == status_code >= 200 /\ status_code < 300

\* a failure range that misses its lower bound: `status_code > 400`
is_fail_status_code_above_400(status_code) == status_code > 400 /\ status_code < 600

is_fail_status_code(status_code) == status_code >= 400 /\ status_code < 600

(***************************************************************************)
(* src/lambda_api/predict_service.py                                       *)
(***************************************************************************)
Headers == [h \in {"Content-Type"} |-> "application/json"]

\* the (is_valid, payload) pair returned by the validators
Outcome(is_valid, payload) == [is_valid |-> is_valid, payload |-> payload]

\* api_return that forgets the error message
api_return_without_error(body, status, error) ==
    [statusCode |-> status,
     headers |-> Headers,
     body |-> dumps(body),
     isBase64Encoded |-> FALSE]

\* api_return that sets the error message whatever the error text is
api_return_always_error(body, status, error) ==
    [statusCode |-> status,
     headers |-> Headers,
     body |-> dumps(body),
     isBase64Encoded |-> FALSE,
     error_message |-> error]

\* api_return that sets the headers of successful responses only
api_return_headers_on_success(body, status, error) ==
    LET response == IF is_success_status_code(status)
                    THEN [statusCode |-> status,
                          headers |-> Headers,
                          body |-> dumps(body),
                          isBase64Encoded |-> FALSE]
                    ELSE [statusCode |-> status,
                          body |-> dumps(body),
                          isBase64Encoded |-> FALSE]
    IN  IF Len(error) # 0
        THEN response @@ [error_message |-> error]
        ELSE response

\* api_return that serializes twice: dumps(dumps(body, default=str))
api_return_double_dumps(body, status, error) ==
    LET response == [statusCode |-> status,
                     headers |-> Headers,
                     body |-> dumps(PyStr(dumps(body))),
                     isBase64Encoded |-> FALSE]
    IN  IF Len(error) # 0
        THEN response @@ [error_message |-> error]
        ELSE response

api_return(body, status, error) ==
    LET response == [statusCode |-> status,
                     headers |-> Headers,
                     body |-> dumps(body),
                     isBase64Encoded |-> FALSE]
    IN  IF Len(error) # 0
        THEN response @@ [error_message |-> error]
        ELSE response

\* a call of api_return: the envelope, or the exception of its dumps
try_api_return(body, status, error) ==
    IF dumps_raises(body) THEN Raise("ValueError", "Circular reference detected")
    ELSE Return(api_return(body, status, error))

\* list_check that hands the candidate back on rejection
list_check_keeps_candidate(candidate) ==
    LET are_allowed_types == are_types(candidate.v, ALLOWED_TYPES)
    IN  IF are_allowed_types.kind = "raise" THEN are_allowed_types
        ELSE Return(Outcome(Truthy(are_allowed_types.val), candidate))

list_check(candidate) ==
    LET are_allowed_types == are_types(candidate.v, ALLOWED_TYPES)
    IN  IF are_allowed_types.kind = "raise" THEN are_allowed_types
        ELSE IF Truthy(are_allowed_types.val)
             THEN Return(Outcome(TRUE, candidate))
             ELSE Return(Outcome(FALSE, PyList(<<>>)))

\* validate_data that tests the scalar's truth value: `elif data and isinstance(...)`
validate_data_truthy_scalar(data) ==
    IF data.t = "list" THEN list_check(data)
    ELSE IF Truthy(data) /\ isinstance(data, ALLOWED_TYPES)
         THEN Return(Outcome(TRUE, PyList(<<data>>)))
    ELSE Return(Outcome(FALSE, PyList(<<>>)))

validate_data(data) ==
    IF data.t = "list" THEN list_check(data)
    ELSE IF isinstance(data, ALLOWED_TYPES) THEN Return(Outcome(TRUE, PyList(<<data>>)))
    ELSE Return(Outcome(FALSE, PyList(<<>>)))

\* "data" in body
HasKey(d, k) == \E i \in 1..Len(d.v) : d.v[i].k = k
\* body["data"]
GetItem(d, k) == d.v[CHOOSE i \in 1..Len(d.v) : d.v[i].k = k].v

DATA == <<"d", "a", "t", "a">>
BODY == <<"b", "o", "d", "y">>

\* validate_body that parses the text and goes on with the text
validate_body_parsed_keeps_text(body, parsed) ==
    LET is_valid == parsed.kind = "return"
    IN  IF body.t = "dict"
        THEN IF HasKey(body, DATA)
             THEN validate_data(GetItem(body, DATA))
             ELSE Return(Outcome(FALSE, PyList(<<>>)))
        ELSE IF body.t = "list" THEN list_check(body)
        ELSE IF isinstance(body, ALLOWED_TYPES)
             THEN Return(Outcome(is_valid, PyList(<<body>>)))
        ELSE Return(Outcome(FALSE, PyList(<<>>)))

\* validate_body after its try block; parsed is the outcome of loads(body)
validate_body_parsed(body, parsed) ==
    LET \* except JSONDecodeError: is_valid = False, body stays the text
        is_valid == parsed.kind = "return"
        b == IF parsed.kind = "return" THEN parsed.val ELSE body
    IN  IF b.t = "dict"
        THEN IF HasKey(b, DATA)
             THEN validate_data(GetItem(b, DATA))
             ELSE Return(Outcome(FALSE, PyList(<<>>)))
        ELSE IF b.t = "list" THEN list_check(b)
        ELSE IF isinstance(b, ALLOWED_TYPES) THEN Return(Outcome(is_valid, PyList(<<b>>)))
        ELSE Return(Outcome(FALSE, PyList(<<>>)))

validate_body(body) ==
    validate_body_parsed(body, IF body.t = "str" THEN loads(body.v) ELSE Return(body))

\* validate_event that reports a rejection as a server error
validate_event_body_server_error(r) ==
    IF r.kind = "raise" THEN r
    ELSE IF r.val.is_valid
         THEN try_api_return(r.val.payload, SUCCESS_STATUS_CODE, "")
         ELSE try_api_return(r.val.payload, SERVER_ERROR_STATUS_CODE,
                             DEFAULT_TYPE_ERROR_MESSAGE)

\* validate_event after its call of validate_body, whose outcome is r
validate_event_body(r) ==
    IF r.kind = "raise" THEN r
    ELSE IF r.val.is_valid
         THEN try_api_return(r.val.payload, SUCCESS_STATUS_CODE, "")
         ELSE try_api_return(r.val.payload, CLIENT_ERROR_STATUS_CODE,
                             DEFAULT_TYPE_ERROR_MESSAGE)

\* validate_event that reads the body with event.get("body")
validate_event_get(ev) ==
    validate_event_body(validate_body(IF HasKey(ev, BODY) THEN GetItem(ev, BODY)
                                      ELSE PyNone))

validate_event(ev) ==
    IF ~HasKey(ev, BODY) THEN Raise("KeyError", "'body'")
    ELSE validate_event_body(validate_body(GetItem(ev, BODY)))

\* the record of logging.info(f"Successful prediction: {prediction_result}")
log_info(prediction_result) ==
    [level |-> "info", text |-> "Successful prediction: ", arg |-> prediction_result]

\* an error record that leaves the failure text out
log_error_without_text(error_msg) ==
    [level |-> "error", text |-> "Unsuccessful prediction: ", arg |-> PyNone]

\* the record of logging.error(f"Unsuccessful prediction: {error_msg}")
log_error(error_msg) ==
    [level |-> "error", text |-> "Unsuccessful prediction: " \o error_msg, arg |-> PyNone]

\* validate_event as predict finds it: the repository's, or a mock that
\* returns a fixed envelope, as the tests patch it in
patched_validate_event(v, ev) ==
    CASE v.name = "validate_event" -> validate_event(ev)
      [] v.name = "mock_return" -> Return(v.val)

\* make_prediction with the transform that is injected for this invocation:
\* the repository's model_prediction_map, or a mock as the tests patch it in
make_prediction(tr, payload_list) ==
    CASE tr.name = "model_prediction_map" -> model_prediction_map(payload_list)
      [] tr.name = "mock_return" -> Return(tr.val)
      [] tr.name = "mock_raise" -> Raise("ValueError", tr.msg)

(***************************************************************************)
(* Inputs: the request bodies, events and injected transforms drawn by     *)
(* Init.                                                                   *)
(***************************************************************************)
TWO == <<"t", "w", "o">>
OTHER_KEY == <<"o", "t", "h", "e", "r">>

Numbers == {PyInt(-2), PyInt(0), PyInt(3), PyInt(42),
            PyFloat(0, 1), PyFloat(25, 1), PyFloat(-15, 1)}
Booleans == {PyBool(TRUE), PyBool(FALSE)}
Scalars == Numbers \cup Booleans \cup {PyNone}
ListElems == {PyInt(0), PyInt(3), PyFloat(25, 1), PyFloat(0, 1),
              PyBool(TRUE), PyBool(FALSE), PyNone,
              PyStr(TWO), PyList(<<PyInt(1)>>)}
Lists == {PyList(s) : s \in UNION {[1..n -> ListElems] : n \in 0..MaxListLen}}
NestedDicts == {PyDict(<<>>), PyDict(<<[k |-> DATA, v |-> PyInt(1)]>>)}
DataValues == Scalars \cup Lists \cup NestedDicts \cup {PyStr(TWO), PyStr(<<>>)}
Dicts == {PyDict(<<>>),
          PyDict(<<[k |-> OTHER_KEY, v |-> PyInt(42)]>>),
          PyDict(<<[k |-> OTHER_KEY, v |-> PyList(<<PyInt(3)>>)]>>)}
         \cup {PyDict(<<[k |-> DATA, v |-> d]>>) : d \in DataValues}
         \cup {PyDict(<<[k |-> OTHER_KEY, v |-> PyInt(1)], [k |-> DATA, v |-> d]>>) :
                   d \in Scalars \cup {PyList(<<>>), PyList(<<PyInt(0), PyInt(3)>>)}}
JsonValues == Scalars \cup Lists \cup Dicts \cup {PyStr(TWO)}

\* texts that are written by hand: unparsable ones, and JSON in other layouts
\* than the one dumps produces
RawTexts == {
    <<>>,
    <<" ">>,
    <<"i", "n", "v", "a", "l", "i", "d", "_", "d", "a", "t", "a">>,
    <<"[", "1", ",", "3", ",", "4", "]">>,
    <<" ", "[", "1", ",", " ", "3", ",", " ", "4", "]", " ">>,
    <<"[", "1", ",", "]">>,
    <<"[", "3">>,
    <<"{", "\"", "d", "a", "t", "a", "\"", ":", "[", "1", ",", "2", ",", "3", "]", "}">>,
    <<"{", "\"", "d", "a", "t", "a", "\"", ":", "1", ",", "\"", "d", "a", "t", "a", "\"",
      ":", "\"", "t", "w", "o", "\"", "}">>,
    <<"{", "\"", "d", "a", "t", "a", "\"", "}">>,
    <<"t", "r", "u">>,
    <<"0", "3">>,
    <<"3", ".">>,
    <<"-">>,
    <<"3", " ", "3">>,
    <<"\"", "t", "w", "o">> }

Texts == {PyStr(dumps(x)) : x \in JsonValues} \cup {PyStr(s) : s \in RawTexts}

\* values that JSON has no form for: a set, and lists that hold one
NonJsonValues == {PySet(<<PyInt(1)>>),
                  PyList(<<PySet(<<PyInt(1)>>), PyInt(3)>>),
                  PyList(<<PyInt(3), PySet(<<PyInt(1)>>)>>)}

\* the values an event's body field takes
Bodies == JsonValues \cup Texts \cup NonJsonValues

Events == {PyDict(<<[k |-> BODY, v |-> b]>>) : b \in Bodies} \cup {PyDict(<<>>)}

Transform(name, val, msg) == [name |-> name, val |-> val, msg |-> msg]
Transforms == {Transform("model_prediction_map", PyNone, ""),
               Transform("mock_return", PyList(<<PyInt(4), PyInt(9), PyInt(16)>>), ""),
               Transform("mock_raise", PyNone, "Prediction failed"),
               Transform("mock_raise", PyNone, ""),
               Transform("mock_return", PyCircular, "")}

\* the envelope a mock of validate_event returns: the sample payload under a
\* status of the mock's choice
mock_envelope(status) ==
    [statusCode |-> status,
     headers |-> Headers,
     body |-> <<"[", "1", ",", " ", "2", ",", " ", "3", "]">>,
     isBase64Encoded |-> FALSE]

MockStatusCodes == {100, 199, 200, 204, 298, 299, 300, 400}

Validator(name, val) == [name |-> name, val |-> val]
TheValidator == Validator("validate_event", [statusCode |-> 0])
MockValidators == {Validator("mock_return", mock_envelope(s)) : s \in MockStatusCodes}

\* the events of the later invocations of one process
OtherEvents == {PyDict(<<[k |-> BODY, v |-> PyStr(<<"[", "1", ",", "3", ",", "4", "]">>)]>>),
                PyDict(<<[k |-> BODY, v |-> PyList(<<PyInt(3), PyStr(TWO)>>)]>>)}

\* arguments of the direct calls of api_return and of the status tests
Args(body, status, error) == [given |-> TRUE, body |-> body, status |-> status,
                              error |-> error]
NoArgs == [given |-> FALSE, body |-> PyNone, status |-> 0, error |-> ""]

ApiBodies == {PyDict(<<[k |-> DATA, v |-> PyStr(TWO)]>>),
              PyList(<<>>),
              PyList(<<PyInt(1), PyInt(3), PyInt(4)>>),
              PyList(<<PyInt(-2), PyFloat(25, 1)>>),
              PyInt(42), PyFloat(0, 1), PyStr(TWO), PyBool(TRUE), PyNone}
             \cup NonJsonValues
Errors == {"", "Error message", DEFAULT_TYPE_ERROR_MESSAGE}
ApiStatusCodes == {SUCCESS_STATUS_CODE, CLIENT_ERROR_STATUS_CODE, SERVER_ERROR_STATUS_CODE}
ApiArgs == {Args(b, s, e) : b \in ApiBodies, s \in ApiStatusCodes, e \in Errors}

StatusCodes == 0..MaxStatusCode
StatusArgs == {Args(PyNone, s, "") : s \in StatusCodes}

(***************************************************************************)
(* State.                                                                  *)
(***************************************************************************)
VARIABLES
    event,       \* the event of this invocation
    transform,   \* the transform injected for this invocation
    validator,   \* validate_event as predict finds it
    args,        \* the arguments of a direct call of a pure function
    pc,          \* position of the invocation
    payload,     \* predict: the envelope returned by validate_event
    response,    \* predict: the envelope returned to the caller
    raised,      \* the exception that left the called function, if any
    calls,       \* number of calls of make_prediction in this invocation
    call_args,   \* the list make_prediction was called with
    log,         \* messages this invocation sent to the logging sink
    called,      \* name of the function the caller invoked
    outcome,     \* result of a direct call
    history      \* the invocations of predict that have ended: event and result

\* the prediction service
predict_vars == <<event, transform, validator, args, pc, payload, response, raised,
                  calls, call_args, log, called, outcome, history>>

(***************************************************************************)
(* State of the deployer (src/deploy) and of the cloud account it works    *)
(* on.                                                                     *)
(***************************************************************************)
VARIABLES
    dpc,           \* position of deploy_api_endpoint
    registry,      \* image registry: the image URLs pushed
    iam,           \* IAM: the role of the account and its attached policies
    lambda_fn,     \* Lambda: the function of the account
    gateway,       \* API Gateway: REST APIs, resources, methods, keys, plans
    elapsed,       \* wait_for_lambda_deployment: time() - start_time
    wait_locals,   \* wait_for_lambda_deployment: response_get, deployment_duration
    locals,        \* deploy_api_endpoint: the values its steps returned
    steps,         \* the calls of this run, in order
    deploy_raised, \* the exception that left deploy_api_endpoint, if any
    runs           \* runs of deploy_api_endpoint that have ended

deploy_vars == <<dpc, registry, iam, lambda_fn, gateway, elapsed, wait_locals, locals,
                 steps, deploy_raised, runs>>

vars == <<predict_vars, deploy_vars>>

(***************************************************************************)
(* The deployer's inputs and the values the cloud account starts from.     *)
(* A formatted name (a URL, an ARN) is the sequence of its parts.          *)
(***************************************************************************)
\* deploy_api_endpoint's account_info and activity_info
account_info == [account_id |-> "123456789012", region |-> "us-east-1",
                 iam_role |-> "lambda-role"]
activity_info == [image_name |-> "model",
                  lambda_function_name |-> "lambda-fn-model",
                  lambda_function_description |-> "prediction",
                  rest_api_name |-> "model-api",
                  endpoint |-> "predict",
                  method_verb |-> "POST",
                  stage |-> "dev"]

\* src/deploy/utils/default_values.py
LAMBDA_SLEEP_SECONDS == 5
LAMBDA_UPDATE_TIME_OUT_SECONDS == 600
DEFAULT_TAG == "latest"
LAMBDA_POLICY_ARN == "arn:aws:iam::aws:policy/service-role/AWSLambdaBasicExecutionRole"

\* Python's None where a name is expected
NoName == <<>>

\* the function name is free: get_function raises ResourceNotFoundException
NoFunction == [state |-> "Absent", image |-> NoName, role |-> NoName,
               permission |-> NoName]
\* a function left by an earlier deployment of another image
OldFunction == [state |-> "Active", image |-> <<"old-image">>, role |-> <<"old-role">>,
                permission |-> NoName]

\* an account without REST APIs, and one that holds the API of another service
EmptyGateway == [apis |-> <<>>, resources |-> <<>>, methods |-> {}, integrations |-> {},
                 deployments |-> <<>>, keys |-> <<>>, plans |-> <<>>, plan_keys |-> {},
                 next_id |-> 1]
OtherGateway == [EmptyGateway EXCEPT
                     !.apis = <<[id |-> "1", name |-> "other-api"]>>,
                     !.resources = <<[api |-> "1", id |-> "2", pathPart |-> ""]>>,
                     !.next_id = 3]

\* the locals before the statement that binds them has run
NoWait == [response_get |-> PyNone, bound |-> FALSE, deployment_duration |-> 0]
NoLocals == [routed_ecr_url |-> NoName, role_arn_ |-> NoName, lambda_uri_ |-> NoName,
             api_deployment_reponse |-> [url |-> NoName, api_key |-> "",
                                        usage_plan_id |-> "", rest_api_id |-> "",
                                        arn |-> NoName]]

\* the prediction service makes no call of the deployer
NotDeploying ==
    /\ dpc = "NotCalled"
    /\ registry = {}
    /\ iam = [role |-> FALSE, policies |-> {}, allowed |-> TRUE]
    /\ lambda_fn = NoFunction
    /\ gateway = EmptyGateway
    /\ elapsed = 0
    /\ wait_locals = NoWait
    /\ locals = NoLocals
    /\ steps = <<>>
    /\ deploy_raised = Return(PyNone)
    /\ runs = 0

NoEnvelope == [statusCode |-> 0]
NoException == Return(PyNone)
NoOutcome == Return(Outcome(FALSE, PyNone))

Init ==
    /\ \/ /\ event \in Events
          /\ transform \in Transforms
          /\ validator = TheValidator
          /\ args = NoArgs
       \/ /\ event = PyDict(<<>>)
          /\ transform \in Transforms
          /\ validator \in MockValidators
          /\ args = NoArgs
       \/ /\ event = PyDict(<<>>)
          /\ transform = Transform("model_prediction_map", PyNone, "")
          /\ validator = TheValidator
          /\ args \in ApiArgs \cup StatusArgs
    /\ pc = "Received"
    /\ payload = NoEnvelope
    /\ response = NoEnvelope
    /\ raised = NoException
    /\ calls = 0
    /\ call_args = PyNone
    /\ log = <<>>
    /\ called = "none"
    /\ outcome = NoOutcome
    /\ history = <<>>
    /\ NotDeploying

(***************************************************************************)
(* predict, lines 207-216 and 249-252: validation of the event, and the    *)
(* pass-through of a rejection.  An exception of validate_event is outside *)
(* the try block and leaves predict.                                       *)
(***************************************************************************)
\* predict whose validation takes the body out of the event: event.pop("body")
predict_validate_pops_body ==
    /\ pc = "Received"
    /\ ~args.given
    /\ called' = "predict"
    /\ event' = PyDict(<<>>)
    /\ \E r \in {patched_validate_event(validator, event)} :
           IF r.kind = "raise"
           THEN /\ pc' = "Raised"
                /\ raised' = r
                /\ UNCHANGED <<payload, response>>
           ELSE /\ payload' = r.val
                /\ raised' = raised
                /\ IF is_success_status_code(r.val.statusCode)
                   THEN /\ pc' = "Accepted"
                        /\ response' = response
                   ELSE /\ pc' = "Rejected"
                        /\ response' = r.val
    /\ UNCHANGED <<transform, validator, args, calls, call_args, log, outcome, history>>
    /\ UNCHANGED deploy_vars

predict_validate ==
    /\ pc = "Received"
    /\ ~args.given
    /\ called' = "predict"
    /\ \E r \in {patched_validate_event(validator, event)} :
           IF r.kind = "raise"
           THEN /\ pc' = "Raised"
                /\ raised' = r
                /\ UNCHANGED <<payload, response>>
           ELSE /\ payload' = r.val
                /\ raised' = raised
                /\ IF is_success_status_code(r.val.statusCode)
                   THEN /\ pc' = "Accepted"
                        /\ response' = response
                   ELSE /\ pc' = "Rejected"
                        /\ response' = r.val
    /\ UNCHANGED <<event, transform, validator, args, calls, call_args, log, outcome,
                   history>>
    /\ UNCHANGED deploy_vars

\* predict that makes a second attempt after a failed one
predict_transform_retries ==
    /\ pc = "Accepted"
    /\ \E payload_list \in {loads(payload.body)} :
       \E result \in {IF payload_list.kind = "raise" THEN payload_list
                      ELSE make_prediction(transform, payload_list.val)} :
       \* prediction_result is [] until make_prediction has returned
       \E prediction_result \in {IF result.kind = "raise" THEN PyList(<<>>)
                                 ELSE result.val} :
       \* the try block ends with the success envelope or with an exception
       \E tried \in {IF result.kind = "raise" THEN result
                     ELSE try_api_return(prediction_result, SUCCESS_STATUS_CODE, "")} :
       \* the handler builds its envelope from prediction_result as it is now
       \E handled \in {IF tried.kind = "return" THEN tried
                       ELSE try_api_return(prediction_result, SERVER_ERROR_STATUS_CODE,
                                           tried.msg)} :
           /\ calls' = IF payload_list.kind = "raise" THEN calls ELSE calls + 1
           /\ call_args' = IF payload_list.kind = "raise" THEN call_args
                           ELSE payload_list.val
           /\ IF tried.kind = "return"
              THEN /\ response' = tried.val
                   /\ log' = Append(log, log_info(prediction_result))
                   /\ raised' = raised
                   /\ pc' = "Succeeded"
              ELSE IF handled.kind = "return"
              THEN /\ response' = handled.val
                   /\ log' = Append(log, log_error(tried.msg))
                   /\ raised' = raised
                   /\ pc' = IF calls = 0 THEN "Accepted" ELSE "Failed"
              \* an exception of the handler leaves predict
              ELSE /\ raised' = handled
                   /\ UNCHANGED <<response, log>>
                   /\ pc' = "Raised"
    /\ UNCHANGED <<event, transform, validator, args, payload, called, outcome, history>>
    /\ UNCHANGED deploy_vars

(***************************************************************************)
(* predict, lines 218-247: the try block and its handler.                  *)
(***************************************************************************)
predict_transform ==
    /\ pc = "Accepted"
    /\ \E payload_list \in {loads(payload.body)} :
       \E result \in {IF payload_list.kind = "raise" THEN payload_list
                      ELSE make_prediction(transform, payload_list.val)} :
       \* prediction_result is [] until make_prediction has returned
       \E prediction_result \in {IF result.kind = "raise" THEN PyList(<<>>)
                                 ELSE result.val} :
       \* the try block ends with the success envelope or with an exception
       \E tried \in {IF result.kind = "raise" THEN result
                     ELSE try_api_return(prediction_result, SUCCESS_STATUS_CODE, "")} :
       \* the handler builds its envelope from prediction_result as it is now
       \E handled \in {IF tried.kind = "return" THEN tried
                       ELSE try_api_return(prediction_result, SERVER_ERROR_STATUS_CODE,
                                           tried.msg)} :
           /\ calls' = IF payload_list.kind = "raise" THEN calls ELSE calls + 1
           /\ call_args' = IF payload_list.kind = "raise" THEN call_args
                           ELSE payload_list.val
           /\ IF tried.kind = "return"
              THEN /\ response' = tried.val
                   /\ log' = Append(log, log_info(prediction_result))
                   /\ raised' = raised
                   /\ pc' = "Succeeded"
              ELSE IF handled.kind = "return"
              THEN /\ response' = handled.val
                   /\ log' = Append(log, log_error(tried.msg))
                   /\ raised' = raised
                   /\ pc' = "Failed"
              \* an exception of the handler leaves predict
              ELSE /\ raised' = handled
                   /\ UNCHANGED <<response, log>>
                   /\ pc' = "Raised"
    /\ UNCHANGED <<event, transform, validator, args, payload, called, outcome, history>>
    /\ UNCHANGED deploy_vars

\* what the invocation of predict that has ended handed to its caller
PredictResult == IF pc = "Raised" THEN raised ELSE Return(response)

(***************************************************************************)
(* The process serves a further event: predict is invoked again, with the  *)
(* same transform.  Everything predict works on is local to the call       *)
(* (lines 207-210), so the new invocation starts from the initial values.  *)
(* The further event is the first event again or, as second event, another *)
(* one.                                                                    *)
(***************************************************************************)
predict_again ==
    /\ called = "predict"
    /\ pc \in {"Rejected", "Succeeded", "Failed", "Raised"}
    /\ Len(history) < MaxInvocations - 1
    /\ history' = Append(history, [event |-> event, result |-> PredictResult])
    /\ event' \in {history'[1].event} \cup (IF history = <<>> THEN OtherEvents ELSE {})
    /\ pc' = "Received"
    /\ called' = "none"
    /\ payload' = NoEnvelope
    /\ response' = NoEnvelope
    /\ raised' = NoException
    /\ calls' = 0
    /\ call_args' = PyNone
    /\ log' = <<>>
    /\ UNCHANGED <<transform, validator, args, outcome>>
    /\ UNCHANGED deploy_vars

(***************************************************************************)
(* Direct calls of the validators on the body of the event, as the tests   *)
(* make them, each on its own.                                             *)
(***************************************************************************)
DirectCall(name, r) ==
    /\ pc = "Received"
    /\ history = <<>>
    /\ called' = name
    /\ IF r.kind = "raise"
       THEN /\ raised' = r
            /\ outcome' = outcome
            /\ pc' = "Raised"
       ELSE /\ raised' = raised
            /\ outcome' = r
            /\ pc' = "Returned"
    /\ UNCHANGED <<event, transform, validator, args, payload, response, calls,
                   call_args, log, history>>
    /\ UNCHANGED deploy_vars

call_validate_body ==
    /\ HasKey(event, BODY)
    /\ DirectCall("validate_body", validate_body(GetItem(event, BODY)))

call_validate_data ==
    /\ HasKey(event, BODY)
    /\ DirectCall("validate_data", validate_data(GetItem(event, BODY)))

call_list_check ==
    /\ HasKey(event, BODY)
    /\ GetItem(event, BODY).t = "list"
    /\ DirectCall("list_check", list_check(GetItem(event, BODY)))

(***************************************************************************)
(* Direct calls of api_return and of the status tests on the arguments     *)
(* drawn by Init.                                                          *)
(***************************************************************************)
call_api_return ==
    /\ args.given
    /\ DirectCall("api_return", try_api_return(args.body, args.status, args.error))

call_is_success_status_code ==
    /\ args.given
    /\ DirectCall("is_success_status_code",
                  Return(PyBool(is_success_status_code(args.status))))

call_is_fail_status_code ==
    /\ args.given
    /\ DirectCall("is_fail_status_code",
                  Return(PyBool(is_fail_status_code(args.status))))

Next ==
    \/ predict_validate
    \/ predict_transform
    \/ predict_again
    \/ call_validate_body
    \/ call_validate_data
    \/ call_list_check
    \/ call_api_return
    \/ call_is_success_status_code
    \/ call_is_fail_status_code

Spec == Init /\ [][Next]_vars

(***************************************************************************)
(* The deployer, src/deploy.  The cloud services answer from the state of  *)
(* the account: a call of a client method is an operator from that state   *)
(* to the new state and the call's outcome.                                *)
(***************************************************************************)
\* the decorator: an exception of the wrapped function that derives from
\* ClientError or BotoCoreError becomes the pair (None, None); any other
\* exception leaves the wrapper
handle_aws_errors(r) ==
    IF r.kind = "raise"
       /\ r.type \in {"ClientError", "BotoCoreError", "NoSuchEntityException",
                      "ResourceNotFoundException", "ResourceConflictException",
                      "ConflictException", "AccessDeniedException",
                      "InvalidParameterValueException"}
    THEN Return([t |-> "tuple", v |-> <<PyNone, PyNone>>])
    ELSE r

\* an entry of the run's trace: a call of a function or of a client method
Called(fn) == [op |-> "call", fn |-> fn]
Returned(fn) == [op |-> "return", fn |-> fn]

(***************************************************************************)
(* ecr_utils.py: the names of the image.                                   *)
(***************************************************************************)
build_ecr_url(account_id_, region_, image_name, tag_) ==
    <<account_id_, ".dkr.ecr.", region_, ".amazonaws.com", "/", image_name, ":", tag_>>

\* pipe_docker_image_to_ecr returns the URL whatever its shell commands did
pipe_docker_image_to_ecr(account_id_, region_, ecr_image_name_) ==
    build_ecr_url(account_id_, region_, ecr_image_name_, DEFAULT_TAG)

(***************************************************************************)
(* iam_utils.py.  The results carry the new state of IAM, the outcome and  *)
(* the client calls made.                                                  *)
(***************************************************************************)
RoleArn(account_id_, role_name_) == <<"arn:aws:iam::", account_id_, ":role/", role_name_>>
\* response[key] of a response that may be None or a tuple
Subscript(resp) ==
    IF resp.t = "dict" THEN Return(resp)
    ELSE IF resp.t = "none"
    THEN Raise("TypeError", "'NoneType' object is not subscriptable")
    ELSE Raise("TypeError", "tuple indices must be integers or slices, not str")

try_get_role(i, role_name_) ==
    IF ~i.allowed
    THEN [iam |-> i, calls |-> <<[op |-> "get_role"]>>,
          out |-> handle_aws_errors(Raise("AccessDeniedException", "get_role"))]
    ELSE IF i.role
    THEN [iam |-> i, calls |-> <<[op |-> "get_role"]>>,
          out |-> handle_aws_errors(Return(
              [t |-> "dict",
               Role |-> [Arn |-> RoleArn(account_info.account_id, role_name_)]]))]
    \* NoSuchEntityException: the role is created and the function ends
    \* without a return statement
    ELSE [iam |-> [i EXCEPT !.role = TRUE],
          calls |-> <<[op |-> "get_role"], [op |-> "create_role"]>>,
          out |-> handle_aws_errors(Return(PyNone))]

try_attach_role_policy(i, role_name_) ==
    IF Subscript(try_get_role(i, role_name_).out.val).kind = "raise"
    THEN [iam |-> try_get_role(i, role_name_).iam,
          calls |-> try_get_role(i, role_name_).calls,
          out |-> Subscript(try_get_role(i, role_name_).out.val)]
    ELSE [iam |-> [try_get_role(i, role_name_).iam
                       EXCEPT !.policies = @ \cup {LAMBDA_POLICY_ARN}],
          calls |-> Append(try_get_role(i, role_name_).calls,
                           [op |-> "attach_role_policy"]),
          out |-> Return(try_get_role(i, role_name_).out.val.Role.Arn)]

(***************************************************************************)
(* lambda_utils.py.                                                        *)
(***************************************************************************)
build_lambda_uri(region_, lambda_arn_) ==
    <<"arn:aws:apigateway:", region_, ":lambda:path/2015-03-31/functions/">>
        \o lambda_arn_ \o <<"/invocations">>

\* the client's get_function
get_function(f, function_name) ==
    IF f.state = "Absent" THEN Raise("ResourceNotFoundException", function_name)
    ELSE Return([t |-> "dict",
                 Configuration |-> [State |-> f.state,
                                    FunctionArn |-> <<"arn:aws:lambda:", account_info.region, ":",
                                                    account_info.account_id, ":function:",
                                                    function_name>>]])

\* get_lambda_function: the response, or None for a function that is not there
get_lambda_function(f, function_name) ==
    handle_aws_errors(IF get_function(f, function_name).kind = "raise"
                      THEN Return(PyNone)
                      ELSE get_function(f, function_name))

lambda_exists(f, function_name) == get_function(f, function_name).kind = "return"

\* get_lambda_arn: the ARN as text, or the text of (None, None)
get_lambda_arn(f, function_name) ==
    IF handle_aws_errors(get_function(f, function_name)).val.t = "dict"
    THEN get_function(f, function_name).val.Configuration.FunctionArn
    ELSE <<"(None, None)">>

\* create_function needs the image in the registry and makes a function that
\* is Pending; its AWS errors end in the decorator
create_lambda_function(f, reg, routed_url, role_arn) ==
    IF f.state # "Absent"
    THEN [fn |-> f,
          out |-> handle_aws_errors(Raise("ResourceConflictException", "create_function"))]
    ELSE IF routed_url \notin reg
    THEN [fn |-> f,
          out |-> handle_aws_errors(Raise("InvalidParameterValueException",
                                          "create_function"))]
    ELSE [fn |-> [f EXCEPT !.state = "Pending", !.image = routed_url, !.role = role_arn],
          out |-> handle_aws_errors(Return([t |-> "dict"]))]

\* the client's update_function_code: refused while the function is Pending
update_function_code(f, reg, routed_ecr_url) ==
    IF f.state = "Absent"
    THEN [fn |-> f, out |-> Raise("ResourceNotFoundException", "update_function_code")]
    ELSE IF f.state = "Pending"
    THEN [fn |-> f, out |-> Raise("ResourceConflictException", "update_function_code")]
    ELSE IF routed_ecr_url \notin reg
    THEN [fn |-> f, out |-> Raise("InvalidParameterValueException", "update_function_code")]
    ELSE [fn |-> [f EXCEPT !.image = routed_ecr_url], out |-> Return([t |-> "dict"])]

\* is_creation_pending of a response that may be None
is_creation_pending(resp) ==
    IF resp.t = "dict" THEN Return(resp.Configuration.State = "Pending")
    ELSE Subscript(resp)

(***************************************************************************)
(* api_gateway_utils.py.  The results carry the new state of the gateway,  *)
(* the value returned and the client calls made.                           *)
(***************************************************************************)
build_source_arn(region_, account_id_, rest_api_id_) ==
    <<"arn:aws:execute-api:", region_, ":", account_id_, ":", rest_api_id_, "/*">>

build_api_url(rest_api_id, region_, endpoint_, stage_) ==
    <<"https://", rest_api_id, ".execute-api.", region_, ".amazonaws.com/",
      stage_, "/", endpoint_, "/">>

\* Python's None where an id is expected; an id of the gateway is never empty
NoId == ""
\* the id the gateway gives to what it creates next
FreshId(g) == ToString(g.next_id)

\* get_rest_api_id_by_name that finds no API
get_rest_api_id_by_name_finds_none(g, rest_api_name) == NoId

\* the id of the first item of get_rest_apis that has the name
get_rest_api_id_by_name(g, rest_api_name) ==
    IF Len(SelectSeq(g.apis, LAMBDA api : api.name = rest_api_name)) = 0 THEN NoId
    ELSE SelectSeq(g.apis, LAMBDA api : api.name = rest_api_name)[1].id

\* the id of the first item of get_resources of the API that has the pathPart
get_resource_id_by_name(g, rest_api_id, resource_name) ==
    IF Len(SelectSeq(g.resources, LAMBDA r : /\ r.api = rest_api_id
                                             /\ r.pathPart = resource_name)) = 0
    THEN NoId
    ELSE SelectSeq(g.resources, LAMBDA r : /\ r.api = rest_api_id
                                           /\ r.pathPart = resource_name)[1].id

\* the gateway creates an API together with its root resource, which has no
\* pathPart
create_rest_api(g, rest_api_name_) ==
    [g |-> [g EXCEPT !.apis = Append(@, [id |-> FreshId(g), name |-> rest_api_name_]),
                     !.resources = Append(@, [api |-> FreshId(g),
                                              id |-> ToString(g.next_id + 1),
                                              pathPart |-> ""]),
                     !.next_id = @ + 2],
     val |-> FreshId(g),
     calls |-> <<[op |-> "create_rest_api", name |-> rest_api_name_]>>]

\* create_resource is refused with ConflictException for a path that exists;
\* the function then returns the id of the resource that has the path
create_endpoint_resource(g, rest_api_id_, endpoint_) ==
    IF get_resource_id_by_name(g, rest_api_id_, endpoint_) # NoId
    THEN [g |-> g, val |-> get_resource_id_by_name(g, rest_api_id_, endpoint_),
          calls |-> <<[op |-> "create_resource", pathPart |-> endpoint_,
                       conflict |-> TRUE]>>]
    ELSE [g |-> [g EXCEPT !.resources = Append(@, [api |-> rest_api_id_,
                                                   id |-> FreshId(g),
                                                   pathPart |-> endpoint_]),
                          !.next_id = @ + 1],
          val |-> FreshId(g),
          calls |-> <<[op |-> "create_resource", pathPart |-> endpoint_,
                       conflict |-> FALSE]>>]

\* put_method is refused with ConflictException for a method that exists; the
\* function passes over it
create_rest_method(g, rest_api_id_, resource_id_, method_verb_) ==
    IF [api |-> rest_api_id_, resource |-> resource_id_, verb |-> method_verb_]
           \in g.methods
    THEN [g |-> g, out |-> Return(PyNone),
          calls |-> <<[op |-> "put_method", conflict |-> TRUE]>>]
    ELSE [g |-> [g EXCEPT !.methods = @ \cup {[api |-> rest_api_id_,
                                               resource |-> resource_id_,
                                               verb |-> method_verb_]}],
          out |-> Return(PyNone),
          calls |-> <<[op |-> "put_method", conflict |-> FALSE]>>]

\* put_integration sets the integration of the method
setup_integration(g, lambda_uri_, rest_api_id_, resource_id_, method_verb_) ==
    [g EXCEPT !.integrations =
         {i \in @ : ~(i.api = rest_api_id_ /\ i.resource = resource_id_
                      /\ i.verb = method_verb_)}
         \cup {[api |-> rest_api_id_, resource |-> resource_id_,
                verb |-> method_verb_, uri |-> lambda_uri_]}]

\* check_stage_exists looks the items of get_deployments up by a "stageName"
\* key; update_deployment changes nothing that is modelled, create_deployment
\* adds a deployment
create_or_update_deployment(g, rest_api_id_, stage_) ==
    IF \E i \in 1..Len(g.deployments) :
           /\ g.deployments[i].api = rest_api_id_
           /\ "stageName" \in DOMAIN g.deployments[i]
           /\ g.deployments[i].stageName = stage_
    THEN g
    ELSE [g EXCEPT !.deployments = Append(@, [api |-> rest_api_id_, id |-> FreshId(g)]),
                   !.next_id = @ + 1]

\* get_api_keys answers with the keys of the queried name
create_api_key(g, rest_api_name_) ==
    IF Len(SelectSeq(g.keys, LAMBDA k : k.name = rest_api_name_ \o "-key")) # 0
    THEN [g |-> g, val |-> SelectSeq(g.keys, LAMBDA k : k.name = rest_api_name_ \o "-key")[1],
          calls |-> <<[op |-> "get_api_keys"]>>]
    ELSE [g |-> [g EXCEPT !.keys = Append(@, [id |-> FreshId(g),
                                              name |-> rest_api_name_ \o "-key",
                                              value |-> "value-" \o FreshId(g)]),
                          !.next_id = @ + 1],
          val |-> [id |-> FreshId(g), name |-> rest_api_name_ \o "-key",
                   value |-> "value-" \o FreshId(g)],
          calls |-> <<[op |-> "get_api_keys"],
                      [op |-> "create_api_key", name |-> rest_api_name_ \o "-key"]>>]

\* a plan is created at every call; a key that another plan of the same stage
\* holds is refused with ConflictException, which the function prints
create_usage_plan(g, rest_api_id_, api_key_id, stage_) ==
    [g |-> [g EXCEPT
                !.plans = Append(@, [id |-> FreshId(g), api |-> rest_api_id_,
                                     stage |-> stage_]),
                !.plan_keys =
                    IF \E i \in 1..Len(g.plans) :
                           /\ g.plans[i].api = rest_api_id_
                           /\ g.plans[i].stage = stage_
                           /\ [plan |-> g.plans[i].id, key |-> api_key_id] \in g.plan_keys
                    THEN @
                    ELSE @ \cup {[plan |-> FreshId(g), key |-> api_key_id]},
                !.next_id = @ + 1],
     val |-> FreshId(g),
     calls |-> <<[op |-> "create_usage_plan"], [op |-> "create_usage_plan_key"]>>]

\* deploy_rest_api, lines 538-549: the API and its endpoint resource, looked
\* up by name and created when the lookup finds none
rest_api_of(g, rest_api_name_) ==
    IF get_rest_api_id_by_name(g, rest_api_name_) = NoId
    THEN create_rest_api(g, rest_api_name_)
    ELSE [g |-> g, val |-> get_rest_api_id_by_name(g, rest_api_name_), calls |-> <<>>]

resource_of(g, rest_api_id, endpoint_) ==
    IF get_resource_id_by_name(g, rest_api_id, endpoint_) = NoId
    THEN create_endpoint_resource(g, rest_api_id, endpoint_)
    ELSE [g |-> g, val |-> get_resource_id_by_name(g, rest_api_id, endpoint_),
          calls |-> <<>>]

\* add_permission keeps one statement per statement id and refuses a second
\* with ResourceConflictException, which add_apigateway_permission passes over
add_apigateway_permission(f, source_arn_) ==
    IF f.state = "Absent"
    THEN [fn |-> f, out |-> Raise("ResourceNotFoundException", "add_permission")]
    ELSE IF f.permission # NoName
    THEN [fn |-> f, out |-> Return(PyNone)]
    ELSE [fn |-> [f EXCEPT !.permission = source_arn_], out |-> Return(PyNone)]

\* update_or_deploy_lambda_function that updates the code of the function it
\* has just created
update_or_deploy_lambda_function_both(f, reg, function_name, ecr_image_url, role_arn) ==
    IF lambda_exists(f, function_name)
    THEN [fn |-> update_function_code(f, reg, ecr_image_url).fn,
          out |-> update_function_code(f, reg, ecr_image_url).out,
          wait |-> FALSE,
          calls |-> <<[op |-> "lambda_exists", found |-> TRUE],
                      [op |-> "update_function_code", ImageUri |-> ecr_image_url]>>]
    ELSE [fn |-> create_lambda_function(f, reg, ecr_image_url, role_arn).fn,
          out |-> create_lambda_function(f, reg, ecr_image_url, role_arn).out,
          wait |-> TRUE,
          calls |-> <<[op |-> "lambda_exists", found |-> FALSE],
                      [op |-> "create_function", ImageUri |-> ecr_image_url,
                       Role |-> role_arn],
                      [op |-> "update_function_code", ImageUri |-> ecr_image_url]>>]

\* update_or_deploy_lambda_function up to the call of
\* wait_for_lambda_deployment: the new state of Lambda, the outcome of the
\* client call, the client calls made, and whether the wait follows
update_or_deploy_lambda_function(f, reg, function_name, ecr_image_url, role_arn) ==
    IF lambda_exists(f, function_name)
    THEN [fn |-> update_function_code(f, reg, ecr_image_url).fn,
          out |-> update_function_code(f, reg, ecr_image_url).out,
          wait |-> FALSE,
          calls |-> <<[op |-> "lambda_exists", found |-> TRUE],
                      [op |-> "update_function_code", ImageUri |-> ecr_image_url]>>]
    ELSE [fn |-> create_lambda_function(f, reg, ecr_image_url, role_arn).fn,
          out |-> create_lambda_function(f, reg, ecr_image_url, role_arn).out,
          wait |-> TRUE,
          calls |-> <<[op |-> "lambda_exists", found |-> FALSE],
                      [op |-> "create_function", ImageUri |-> ecr_image_url,
                       Role |-> role_arn]>>]

\* do_lambda_update, lines 77-84: the URI of the function as it is now
lambda_uri_of(f) ==
    build_lambda_uri(account_info.region,
                     get_lambda_arn(f, activity_info.lambda_function_name))

(***************************************************************************)
(* A deployment starts on an account with or without the role, the         *)
(* function and another service's API, or on one that refuses access to    *)
(* IAM.  The deployer makes no call of the prediction service.             *)
(***************************************************************************)
InitDeploy ==
    /\ event = PyDict(<<>>)
    /\ transform = Transform("model_prediction_map", PyNone, "")
    /\ validator = TheValidator
    /\ args = NoArgs
    /\ pc = "NotCalled"
    /\ payload = NoEnvelope
    /\ response = NoEnvelope
    /\ raised = NoException
    /\ calls = 0
    /\ call_args = PyNone
    /\ log = <<>>
    /\ called = "none"
    /\ outcome = NoOutcome
    /\ history = <<>>
    /\ dpc = "Start"
    /\ registry = {}
    /\ iam \in {[role |-> FALSE, policies |-> {}, allowed |-> TRUE],
                [role |-> TRUE, policies |-> {}, allowed |-> TRUE],
                [role |-> FALSE, policies |-> {}, allowed |-> FALSE]}
    /\ lambda_fn \in {NoFunction, OldFunction}
    /\ gateway \in {EmptyGateway, OtherGateway}
    /\ elapsed = 0
    /\ wait_locals = NoWait
    /\ locals = NoLocals
    /\ steps = <<>>
    /\ deploy_raised = Return(PyNone)
    /\ runs = 0

(***************************************************************************)
(* deploy_api_endpoint, step 1: do_ecr_update.  The shell commands of      *)
(* pipe_docker_image_to_ecr fail without an exception: the repository ends *)
(* with the image or without it.                                           *)
(***************************************************************************)
do_ecr_update ==
    /\ dpc = "Start"
    /\ \E routed_url \in {pipe_docker_image_to_ecr(account_info.account_id,
                                                   account_info.region,
                                                   activity_info.image_name)} :
           /\ registry' \in {registry \cup {routed_url}, registry \ {routed_url}}
           /\ locals' = [locals EXCEPT !.routed_ecr_url = routed_url]
    /\ steps' = steps \o <<Called("do_ecr_update"), Returned("do_ecr_update")>>
    /\ dpc' = "ImagePushed"
    /\ UNCHANGED <<iam, lambda_fn, gateway, elapsed, wait_locals, deploy_raised, runs>>
    /\ UNCHANGED predict_vars

(***************************************************************************)
(* Step 2: do_iam_update, which is try_attach_role_policy.                 *)
(***************************************************************************)
do_iam_update ==
    /\ dpc = "ImagePushed"
    /\ \E r \in {try_attach_role_policy(iam, account_info.iam_role)} :
           /\ iam' = r.iam
           /\ IF r.out.kind = "raise"
              THEN /\ dpc' = "Raised"
                   /\ deploy_raised' = r.out
                   /\ steps' = steps \o <<Called("do_iam_update")>> \o r.calls
                   /\ locals' = locals
              ELSE /\ dpc' = "RoleReady"
                   /\ deploy_raised' = deploy_raised
                   /\ steps' = steps \o <<Called("do_iam_update")>> \o r.calls
                                     \o <<Returned("do_iam_update")>>
                   /\ locals' = [locals EXCEPT !.role_arn_ = r.out.val]
    /\ UNCHANGED <<registry, lambda_fn, gateway, elapsed, wait_locals, runs>>
    /\ UNCHANGED predict_vars

(***************************************************************************)
(* Step 3: do_lambda_update.  With a function that exists it runs to its   *)
(* end; with a new function it goes on in wait_for_lambda_deployment.      *)
(***************************************************************************)
do_lambda_update ==
    /\ dpc = "RoleReady"
    /\ \E r \in {update_or_deploy_lambda_function(
                     lambda_fn, registry, activity_info.lambda_function_name,
                     locals.routed_ecr_url, locals.role_arn_)} :
           /\ lambda_fn' = r.fn
           /\ IF r.out.kind = "raise"
              THEN /\ dpc' = "Raised"
                   /\ deploy_raised' = r.out
                   /\ steps' = steps \o <<Called("do_lambda_update")>> \o r.calls
                   /\ locals' = locals
              ELSE IF r.wait
              THEN /\ dpc' = "Created"
                   /\ deploy_raised' = deploy_raised
                   /\ steps' = steps \o <<Called("do_lambda_update")>> \o r.calls
                   /\ locals' = locals
              ELSE /\ dpc' = "LambdaReady"
                   /\ deploy_raised' = deploy_raised
                   /\ steps' = steps \o <<Called("do_lambda_update")>> \o r.calls
                                     \o <<Returned("do_lambda_update")>>
                   /\ locals' = [locals EXCEPT !.lambda_uri_ = lambda_uri_of(r.fn)]
    /\ UNCHANGED <<registry, iam, gateway, elapsed, wait_locals, runs>>
    /\ UNCHANGED predict_vars

(***************************************************************************)
(* wait_for_lambda_deployment, lines 137-142: start_time, the first        *)
(* get_lambda_function and the first test of the loop on a response that   *)
(* is None.  The call takes time.                                          *)
(***************************************************************************)
wait_for_lambda_deployment ==
    /\ dpc = "Created"
    /\ \E d \in 0..MaxCallSeconds :
       \E response_get \in {get_lambda_function(
                                lambda_fn, activity_info.lambda_function_name).val} :
           /\ elapsed' = d
           /\ wait_locals' = [NoWait EXCEPT !.response_get = response_get]
           /\ IF is_creation_pending(response_get).kind = "raise"
              THEN /\ dpc' = "Raised"
                   /\ deploy_raised' = handle_aws_errors(is_creation_pending(response_get))
              ELSE /\ dpc' = "Polling"
                   /\ deploy_raised' = deploy_raised
    /\ steps' = Append(steps, Called("wait_for_lambda_deployment"))
    /\ UNCHANGED <<registry, iam, lambda_fn, gateway, locals, runs>>
    /\ UNCHANGED predict_vars

(***************************************************************************)
(* Lines 144-160: one pass of the loop, entered on a Pending response.     *)
(***************************************************************************)
wait_for_lambda_deployment_poll ==
    /\ dpc = "Polling"
    /\ is_creation_pending(wait_locals.response_get) = Return(TRUE)
    /\ \E d \in 0..MaxCallSeconds :
       \E response_get \in {get_lambda_function(
                                lambda_fn, activity_info.lambda_function_name).val} :
       \E deployment_duration \in {elapsed + d} :
           /\ wait_locals' = [response_get |-> response_get, bound |-> TRUE,
                              deployment_duration |-> deployment_duration]
           /\ IF deployment_duration > LAMBDA_UPDATE_TIME_OUT_SECONDS
              THEN /\ elapsed' = deployment_duration
                   /\ dpc' = "Raised"
                   /\ deploy_raised' = handle_aws_errors(
                          Raise("TimeoutError", "Lambda deployment timed out"))
              ELSE /\ elapsed' = deployment_duration + LAMBDA_SLEEP_SECONDS
                   /\ dpc' = dpc
                   /\ deploy_raised' = deploy_raised
    /\ UNCHANGED <<registry, iam, lambda_fn, gateway, locals, steps, runs>>
    /\ UNCHANGED predict_vars

(***************************************************************************)
(* Lines 144 and 162-164: the loop is left, or never entered, on a         *)
(* response that is not Pending, and deployment_duration is read.  After   *)
(* the return do_lambda_update runs to its end.                            *)
(***************************************************************************)
wait_for_lambda_deployment_return ==
    /\ dpc = "Polling"
    /\ is_creation_pending(wait_locals.response_get) = Return(FALSE)
    /\ IF ~wait_locals.bound
       THEN /\ dpc' = "Raised"
            /\ deploy_raised' = handle_aws_errors(
                   Raise("UnboundLocalError",
                         "local variable 'deployment_duration' referenced before assignment"))
            /\ UNCHANGED <<elapsed, wait_locals, locals, steps>>
       ELSE /\ dpc' = "LambdaReady"
            /\ deploy_raised' = deploy_raised
            /\ elapsed' = 0
            /\ wait_locals' = NoWait
            /\ locals' = [locals EXCEPT !.lambda_uri_ = lambda_uri_of(lambda_fn)]
            /\ steps' = steps \o <<Returned("wait_for_lambda_deployment"),
                                   Returned("do_lambda_update")>>
    /\ UNCHANGED <<registry, iam, lambda_fn, gateway, runs>>
    /\ UNCHANGED predict_vars

(***************************************************************************)
(* Step 4: do_api_update, which is deploy_rest_api.                        *)
(***************************************************************************)
do_api_update ==
    /\ dpc = "LambdaReady"
    /\ \E api \in {rest_api_of(gateway, activity_info.rest_api_name)} :
       \E res \in {resource_of(api.g, api.val, activity_info.endpoint)} :
       \E met \in {create_rest_method(res.g, api.val, res.val,
                                      activity_info.method_verb)} :
           IF met.out.kind = "raise"
           THEN /\ gateway' = met.g
                /\ dpc' = "Raised"
                /\ deploy_raised' = met.out
                /\ locals' = locals
                /\ steps' = steps \o <<Called("do_api_update")>> \o api.calls
                                  \o res.calls \o met.calls
           ELSE
               \E key \in {create_api_key(
                              create_or_update_deployment(
                                  setup_integration(met.g, locals.lambda_uri_, api.val,
                                                    res.val, activity_info.method_verb),
                                  api.val, activity_info.stage),
                              activity_info.rest_api_name)} :
               \E plan \in {create_usage_plan(key.g, api.val, key.val.id,
                                              activity_info.stage)} :
                   /\ gateway' = plan.g
                   /\ dpc' = "ApiDeployed"
                   /\ deploy_raised' = deploy_raised
                   /\ locals' = [locals EXCEPT !.api_deployment_reponse =
                          [url |-> build_api_url(api.val, account_info.region,
                                                 activity_info.endpoint,
                                                 activity_info.stage),
                           api_key |-> key.val.value,
                           usage_plan_id |-> plan.val,
                           rest_api_id |-> api.val,
                           arn |-> build_source_arn(account_info.region,
                                                    account_info.account_id, api.val)]]
                   /\ steps' = steps \o <<Called("do_api_update")>> \o api.calls
                                     \o res.calls \o met.calls \o key.calls
                                     \o plan.calls \o <<Returned("do_api_update")>>
    /\ UNCHANGED <<registry, iam, lambda_fn, elapsed, wait_locals, runs>>
    /\ UNCHANGED predict_vars

(***************************************************************************)
(* Step 5: do_api_allowance, after which deploy_api_endpoint returns.      *)
(***************************************************************************)
api_allowance_at(position) ==
    /\ dpc = position
    /\ \E r \in {add_apigateway_permission(lambda_fn,
                                           locals.api_deployment_reponse.arn)} :
           /\ lambda_fn' = r.fn
           /\ IF r.out.kind = "raise"
              THEN /\ dpc' = "Raised"
                   /\ deploy_raised' = r.out
                   /\ steps' = steps \o <<Called("do_api_allowance"),
                                          [op |-> "add_permission",
                                           SourceArn |-> locals.api_deployment_reponse.arn]>>
              ELSE /\ dpc' = "Deployed"
                   /\ deploy_raised' = deploy_raised
                   /\ steps' = steps \o <<Called("do_api_allowance"),
                                          [op |-> "add_permission",
                                           SourceArn |-> locals.api_deployment_reponse.arn],
                                          Returned("do_api_allowance")>>
    /\ UNCHANGED <<registry, iam, gateway, elapsed, wait_locals, locals, runs>>
    /\ UNCHANGED predict_vars

\* deploy_api_endpoint that grants the permission before it deploys the API
do_api_allowance_before_gateway == api_allowance_at("LambdaReady")

do_api_allowance == api_allowance_at("ApiDeployed")

(***************************************************************************)
(* The deployer is run again on the same account with the same inputs.     *)
(***************************************************************************)
deploy_again ==
    /\ dpc \in {"Deployed", "Raised"}
    /\ runs + 1 < MaxRuns
    /\ runs' = runs + 1
    /\ dpc' = "Start"
    /\ elapsed' = 0
    /\ wait_locals' = NoWait
    /\ locals' = NoLocals
    /\ steps' = <<>>
    /\ deploy_raised' = Return(PyNone)
    /\ UNCHANGED <<registry, iam, lambda_fn, gateway>>
    /\ UNCHANGED predict_vars

(***************************************************************************)
(* The Lambda service ends the creation of the function.                   *)
(***************************************************************************)
lambda_settles ==
    /\ lambda_fn.state = "Pending"
    /\ \E state \in {"Active", "Failed"} :
           lambda_fn' = [lambda_fn EXCEPT !.state = state]
    /\ UNCHANGED <<dpc, registry, iam, gateway, elapsed, wait_locals, locals, steps,
                   deploy_raised, runs>>
    /\ UNCHANGED predict_vars

NextDeploy ==
    \/ do_ecr_update
    \/ do_iam_update
    \/ do_lambda_update
    \/ wait_for_lambda_deployment
    \/ wait_for_lambda_deployment_poll
    \/ wait_for_lambda_deployment_return
    \/ do_api_update
    \/ do_api_allowance
    \/ deploy_again
    \/ lambda_settles

SpecDeploy == InitDeploy /\ [][NextDeploy]_vars

(***************************************************************************)
(* Vocabulary of the properties.                                           *)
(***************************************************************************)
\* the body of the event of this invocation (of an event that has one)
EventBody == GetItem(event, BODY)

\* an integer or a floating-point number; a boolean is not a number
IsNumber(x) == x.t \in {"int", "float"}
IsNumberList(x) == x.t = "list" /\ \A i \in 1..Len(x.v) : IsNumber(x.v[i])
\* neither a number nor a boolean: text, null, a list, a mapping
IsNonNumeric(x) == x.t \notin {"int", "float", "bool"}

Rejection == Outcome(FALSE, PyList(<<>>))

\* the scalar/list classification: a number n gives [n], a list of numbers
\* gives the list, anything else is rejected
Classify(x) ==
    IF IsNumber(x) THEN Outcome(TRUE, PyList(<<x>>))
    ELSE IF IsNumberList(x) THEN Outcome(TRUE, x)
    ELSE Rejection

\* the value a body denotes: itself, or the value its text parses to
Denoted(b) == IF b.t = "str" THEN loads(b.v) ELSE Return(b)
Unparsable(b) == b.t = "str" /\ loads(b.v).kind = "raise"
DenotesMapping(b) == Denoted(b).kind = "return" /\ Denoted(b).val.t = "dict"

\* a body that the validation rules accept
WellFormed(b) ==
    /\ ~Unparsable(b)
    /\ IF Denoted(b).val.t = "dict"
       THEN /\ HasKey(Denoted(b).val, DATA)
            /\ Classify(GetItem(Denoted(b).val, DATA)).is_valid
       ELSE Classify(Denoted(b).val).is_valid

\* a boolean as body, as JSON text, as data value or as element of a list
InvolvesBoolean(b) ==
    /\ ~Unparsable(b)
    /\ \/ Denoted(b).val.t = "bool"
       \/ /\ Denoted(b).val.t = "dict"
          /\ HasKey(Denoted(b).val, DATA)
          /\ GetItem(Denoted(b).val, DATA).t = "bool"
       \/ /\ Denoted(b).val.t = "list"
          /\ \E i \in 1..Len(Denoted(b).val.v) : Denoted(b).val.v[i].t = "bool"

\* the error message an envelope carries; none is the empty text
ErrorMessageOf(env) ==
    IF "error_message" \in DOMAIN env THEN env.error_message ELSE ""

EnvelopeFields == {"statusCode", "headers", "body", "isBase64Encoded", "error_message"}

\* what the injected transform does on the payload that validation accepted
TransformOutcome == make_prediction(transform, loads(payload.body).val)

(***************************************************************************)
(* C1. For every event that has a body field, one invocation of predict    *)
(* ends by returning one envelope in one of the states Rejected (400),     *)
(* Succeeded (200) or Failed (500); no exception leaves predict.           *)
(***************************************************************************)
C1_PredictReturnsOneEnvelope ==
    (called = "predict" /\ HasKey(event, BODY)) =>
        /\ pc \in {"Accepted", "Rejected", "Succeeded", "Failed"}
        /\ pc = "Accepted" => response = NoEnvelope
        /\ pc = "Rejected" => response.statusCode = CLIENT_ERROR_STATUS_CODE
        /\ pc = "Succeeded" => response.statusCode = SUCCESS_STATUS_CODE
        /\ pc = "Failed" => response.statusCode = SERVER_ERROR_STATUS_CODE

(***************************************************************************)
(* C2. Whenever validation accepts the body and the transform raises a     *)
(* failure with message m, predict returns an envelope with status 500,    *)
(* body "[]", the standard headers, isBase64Encoded false and error        *)
(* message m (an envelope carries an empty message by carrying none), and  *)
(* the failure does not leave predict.                                     *)
(***************************************************************************)
C2_TransformFailureEnvelope ==
    (/\ called = "predict"
     /\ pc \in {"Succeeded", "Failed", "Raised"}
     /\ payload # NoEnvelope
     /\ TransformOutcome.kind = "raise") =>
        /\ pc = "Failed"
        /\ DOMAIN response \subseteq EnvelopeFields
        /\ response.statusCode = 500
        /\ response.body = <<"[", "]">>
        /\ response.headers = [h \in {"Content-Type"} |-> "application/json"]
        /\ response.isBase64Encoded = FALSE
        /\ ErrorMessageOf(response) = TransformOutcome.msg

C2_Witness ==
    /\ pc = "Failed"
    /\ transform = Transform("mock_raise", PyNone, "Prediction failed")
    /\ ErrorMessageOf(response) = "Prediction failed"
    /\ calls = 1

(***************************************************************************)
(* C3. For every event whose body is malformed (unparsable text, wrong     *)
(* shape, a list with a disallowed element type, a mapping without the     *)
(* data key), predict returns an envelope with status 400 and the error    *)
(* message "Unknown prediction input format.", and never raises.           *)
(* Bodies with a boolean in them are left to C7.                           *)
(***************************************************************************)
C3_MalformedBodyRejected ==
    (/\ called = "predict"
     /\ pc # "Accepted"
     /\ HasKey(event, BODY)
     /\ ~WellFormed(EventBody)
     /\ ~InvolvesBoolean(EventBody)) =>
        /\ pc = "Rejected"
        /\ response.statusCode = 400
        /\ ErrorMessageOf(response) = "Unknown prediction input format."

(***************************************************************************)
(* C4. Whenever validation rejects the event (status 400), predict returns *)
(* the validation envelope verbatim and the transform is never invoked.    *)
(***************************************************************************)
C4_RejectionVerbatim ==
    (called = "predict" /\ payload # NoEnvelope /\ payload.statusCode = 400) =>
        /\ pc = "Rejected"
        /\ response = payload
        /\ calls = 0
        /\ log = <<>>

C4_Witness ==
    /\ pc = "Rejected"
    /\ EventBody = PyList(<<PyInt(3), PyStr(TWO)>>)
    /\ response = payload
    /\ response.statusCode = 400
    /\ calls = 0

(***************************************************************************)
(* C5. For every list L of integers and floating-point numbers (the empty  *)
(* list, a list of length one, a list with the value 0 in any position),   *)
(* validate_body(L) returns accepted with payload L.                       *)
(***************************************************************************)
C5_NumberListAccepted ==
    (called = "validate_body" /\ IsNumberList(EventBody)) =>
        /\ pc = "Returned"
        /\ outcome.val = Outcome(TRUE, EventBody)

(***************************************************************************)
(* C6. For every list with at least one element that is not an integer or  *)
(* floating-point number, at any position, validate_body returns not       *)
(* accepted with the empty payload.  The element is text, null, a list or  *)
(* a mapping; boolean elements are left to C7.                             *)
(***************************************************************************)
C6_MixedListRejected ==
    (/\ called = "validate_body"
     /\ EventBody.t = "list"
     /\ \E i \in 1..Len(EventBody.v) : IsNonNumeric(EventBody.v[i])) =>
        /\ pc = "Returned"
        /\ outcome.val = Rejection

(***************************************************************************)
(* C7. Booleans are never treated as numeric: validate_body rejects, with  *)
(* empty payload, a boolean body, the JSON texts true and false, a data    *)
(* value that is a boolean and any list that contains a boolean.           *)
(***************************************************************************)
C7_BooleansRejected ==
    (called = "validate_body" /\ InvolvesBoolean(EventBody)) =>
        /\ pc = "Returned"
        /\ outcome.val = Rejection

(***************************************************************************)
(* C8. For every integer or floating-point scalar n (0 and negative        *)
(* values included), validate_body(n) and validate_data(n) return accepted *)
(* with the payload [n].                                                   *)
(***************************************************************************)
C8_NumberScalarAccepted ==
    (called \in {"validate_body", "validate_data"} /\ IsNumber(EventBody)) =>
        /\ pc = "Returned"
        /\ outcome.val = Outcome(TRUE, PyList(<<EventBody>>))

C8_Witness ==
    /\ called = "validate_data"
    /\ EventBody = PyInt(0)
    /\ pc = "Returned"
    /\ outcome.val = Outcome(TRUE, PyList(<<PyInt(0)>>))

(***************************************************************************)
(* C9. For every text body that cannot be parsed as JSON, the empty string *)
(* included, validate_body returns not accepted with the empty payload and *)
(* does not raise.                                                         *)
(***************************************************************************)
C9_UnparsableTextRejected ==
    (called = "validate_body" /\ Unparsable(EventBody)) =>
        /\ pc = "Returned"
        /\ raised = NoException
        /\ outcome.val = Rejection

C9_Witness ==
    /\ called = "validate_body"
    /\ EventBody = PyStr(<<>>)
    /\ pc = "Returned"
    /\ outcome.val = Rejection

(***************************************************************************)
(* C10. For a mapping body (given directly or as JSON text): with the key  *)
(* data, the outcome of validate_body is the scalar/list classification of *)
(* that key's value; without it, not accepted with the empty payload.      *)
(***************************************************************************)
C10_MappingClassified ==
    (called = "validate_body" /\ DenotesMapping(EventBody)) =>
        /\ pc = "Returned"
        /\ outcome.val = IF HasKey(Denoted(EventBody).val, DATA)
                         THEN Classify(GetItem(Denoted(EventBody).val, DATA))
                         ELSE Rejection

(***************************************************************************)
(* Vocabulary of the properties C11 to C20.                                *)
(***************************************************************************)
\* the outcome of the validation rules on the body of this invocation
Validated == validate_body(EventBody).val

\* the result of the transform, as predict logged it
LoggedResult == log[Len(log)].arg

\* a number as the decimal Mant / 10^Exp; True and False count as 1 and 0
Mant(x) == CASE x.t = "float" -> x.m
             [] x.t = "bool" -> IF x.v THEN 1 ELSE 0
             [] OTHER -> x.v
Exp(x) == IF x.t = "float" THEN x.e ELSE 0

\* r is the number x * x, a float exactly when x is one
IsSquareOf(r, x) ==
    /\ r.t = (IF x.t = "float" THEN "float" ELSE "int")
    /\ Mant(r) * Pow10(2 * Exp(x)) = Mant(x) * Mant(x) * Pow10(Exp(r))

IsText(b) == b \in Seq(STRING)

HasErrorMessage(env) == "error_message" \in DOMAIN env

RECURSIVE IsJsonNative(_)
\* a value JSON has a form for: a number, a boolean, null, text, and the
\* lists and text-keyed mappings made of such values
IsJsonNative(x) ==
    CASE x.t \in {"int", "float", "bool", "none", "str"} -> TRUE
      [] x.t = "list" -> \A i \in 1..Len(x.v) : IsJsonNative(x.v[i])
      [] x.t = "dict" -> \A i \in 1..Len(x.v) : IsJsonNative(x.v[i].v)
      [] OTHER -> FALSE

\* the three fields every envelope has, the body being text that parses
StandardEnvelope(env) ==
    /\ {"statusCode", "headers", "body", "isBase64Encoded"} \subseteq DOMAIN env
    /\ env.headers = [h \in {"Content-Type"} |-> "application/json"]
    /\ env.isBase64Encoded = FALSE
    /\ IsText(env.body)
    /\ loads(env.body).kind = "return"

C12_ValidateEventEnvelope ==
    (called = "predict" /\ validator = TheValidator /\ payload # NoEnvelope) =>
        /\ payload.statusCode \in {200, 400}
        /\ IF Validated.is_valid
           THEN /\ payload.statusCode = 200
                /\ payload.body = dumps(Validated.payload)
                /\ ~HasErrorMessage(payload)
           ELSE /\ payload.statusCode = 400
                /\ payload.body = <<"[", "]">>
                /\ HasErrorMessage(payload)
                /\ payload.error_message = "Unknown prediction input format."

C12_Witness ==
    /\ called = "predict"
    /\ validator = TheValidator
    /\ payload # NoEnvelope
    /\ EventBody = PyStr(<<"i", "n", "v", "a", "l", "i", "d", "_", "d", "a", "t", "a">>)
    /\ payload.statusCode = 400
    /\ payload.body = <<"[", "]">>
    /\ payload.error_message = "Unknown prediction input format."

(***************************************************************************)
(* C13. In every outcome that validate_body, validate_data or list_check   *)
(* returns, the payload is the empty list whenever accepted is false.      *)
(***************************************************************************)
C13_RejectionHasEmptyPayload ==
    (/\ called \in {"validate_body", "validate_data", "list_check"}
     /\ pc = "Returned"
     /\ ~outcome.val.is_valid) =>
        outcome.val.payload = PyList(<<>>)

C13_Witness ==
    /\ called = "list_check"
    /\ pc = "Returned"
    /\ EventBody = PyList(<<PyInt(3), PyStr(TWO)>>)
    /\ ~outcome.val.is_valid
    /\ outcome.val.payload = PyList(<<>>)

(***************************************************************************)
(* C14. An envelope built by api_return has the error-message field if and *)
(* only if the error text passed to it is not empty, and the field holds   *)
(* that text; every Succeeded envelope of predict has no such field.       *)
(***************************************************************************)
C14_ErrorMessageIffError ==
    /\ (called = "api_return" /\ pc = "Returned") =>
           /\ HasErrorMessage(outcome.val) <=> args.error # ""
           /\ HasErrorMessage(outcome.val) => outcome.val.error_message = args.error
    /\ (called = "predict" /\ pc = "Succeeded") => ~HasErrorMessage(response)

C14_Witness ==
    /\ called = "api_return"
    /\ pc = "Returned"
    /\ args.error = "Error message"
    /\ HasErrorMessage(outcome.val)
    /\ outcome.val.error_message = "Error message"

(***************************************************************************)
(* C15. Every Failed (status 500) envelope that predict returns carries a  *)
(* textual error message, whatever failure the transform raised, a failure *)
(* with an empty message text included.                                    *)
(***************************************************************************)
C15_FailedCarriesMessage ==
    (called = "predict" /\ pc = "Failed") =>
        /\ response.statusCode = 500
        /\ HasErrorMessage(response)

(***************************************************************************)
(* C16. Every envelope built by api_return, and every envelope predict     *)
(* returns, has the headers {"Content-Type": "application/json"},          *)
(* isBase64Encoded false and a body that is text: the serialized form of   *)
(* the packaged value, never the value itself.                             *)
(***************************************************************************)
C16_StandardEnvelope ==
    /\ (called = "api_return" /\ pc = "Returned") =>
           /\ StandardEnvelope(outcome.val)
           /\ outcome.val.body = dumps(args.body)
           /\ outcome.val.statusCode = args.status
    /\ (called = "predict" /\ pc \in {"Rejected", "Succeeded", "Failed"}) =>
           StandardEnvelope(response)

C16_Witness ==
    /\ called = "api_return"
    /\ pc = "Returned"
    /\ args.body = PyDict(<<[k |-> DATA, v |-> PyStr(TWO)]>>)
    /\ args.status = 400
    /\ outcome.val.headers = [h \in {"Content-Type"} |-> "application/json"]
    /\ outcome.val.body = <<"{", "\"", "d", "a", "t", "a", "\"", ":", " ",
                            "\"", "t", "w", "o", "\"", "}">>

(***************************************************************************)
(* C17. Round trip: for every body value that api_return can package,      *)
(* deserializing the body field of api_return(body, 200) yields a value    *)
(* equal to the original body; so the list handed to the transform in      *)
(* predict equals the payload that validation accepted.                    *)
(***************************************************************************)
C17_RoundTrip ==
    /\ (called = "api_return" /\ pc = "Returned" /\ args.status = 200) =>
           loads(outcome.val.body) = Return(args.body)
    /\ (called = "predict" /\ validator = TheValidator /\ calls = 1) =>
           call_args = Validated.payload

(***************************************************************************)
(* C17, amended.  Round trip for every body value that JSON has a form     *)
(* for (numbers, booleans, null, text, lists and text-keyed mappings of    *)
(* such values): deserializing the body field of api_return(body, 200)     *)
(* yields a value equal to the original body; so, whenever the payload     *)
(* that validation accepted is such a value, the list handed to the        *)
(* transform in predict equals it.                                         *)
(***************************************************************************)
C17_RoundTripJsonNative ==
    /\ (/\ called = "api_return"
        /\ pc = "Returned"
        /\ args.status = 200
        /\ IsJsonNative(args.body)) =>
           loads(outcome.val.body) = Return(args.body)
    /\ (/\ called = "predict"
        /\ validator = TheValidator
        /\ calls = 1
        /\ IsJsonNative(Validated.payload)) =>
           call_args = Validated.payload

C17_Witness ==
    /\ called = "predict"
    /\ pc = "Succeeded"
    /\ validator = TheValidator
    /\ EventBody = PyList(<<PyInt(3), PyFloat(25, 1)>>)
    /\ calls = 1
    /\ call_args = PyList(<<PyInt(3), PyFloat(25, 1)>>)
    /\ payload.body = <<"[", "3", ",", " ", "2", ".", "5", "]">>

(***************************************************************************)
(* C18. predict passes the validation envelope through unchanged, without  *)
(* attempting the transform, exactly when the status of that envelope is   *)
(* not in the success range [200,299); for a status inside the range it    *)
(* proceeds to the transform.                                              *)
(***************************************************************************)
C18_PassThroughOutside200To299Open ==
    (called = "predict" /\ pc # "Accepted" /\ payload # NoEnvelope) =>
        IF payload.statusCode >= 200 /\ payload.statusCode < 299
        THEN pc \in {"Succeeded", "Failed", "Raised"} /\ calls = 1
        ELSE pc = "Rejected" /\ response = payload /\ calls = 0

(***************************************************************************)
(* C18, amended.  predict passes the validation envelope through           *)
(* unchanged, without attempting the transform, exactly when the status of *)
(* that envelope is not in the success range [200,300), that is 200 to 299 *)
(* with both bounds included; for a status inside the range it proceeds to *)
(* the transform.                                                          *)
(***************************************************************************)
C18_PassThroughOutside200To299 ==
    (called = "predict" /\ pc # "Accepted" /\ payload # NoEnvelope) =>
        IF payload.statusCode >= 200 /\ payload.statusCode < 300
        THEN pc \in {"Succeeded", "Failed", "Raised"} /\ calls = 1
        ELSE pc = "Rejected" /\ response = payload /\ calls = 0

C18_Witness ==
    /\ called = "predict"
    /\ validator.name = "mock_return"
    /\ payload.statusCode = 299
    /\ pc = "Succeeded"
    /\ calls = 1

(***************************************************************************)
(* C19. is_success_status_code(s) is true exactly for the integers         *)
(* 200 <= s <= 299 and is_fail_status_code(s) exactly for 400 <= s <= 599; *)
(* no status code is both a success and a failure.                         *)
(***************************************************************************)
C19_StatusClassification ==
    /\ (called = "is_success_status_code" /\ pc = "Returned") =>
           outcome.val = PyBool(200 <= args.status /\ args.status <= 299)
    /\ (called = "is_fail_status_code" /\ pc = "Returned") =>
           outcome.val = PyBool(400 <= args.status /\ args.status <= 599)
    /\ args.given =>
           ~(is_success_status_code(args.status) /\ is_fail_status_code(args.status))

C19_Witness ==
    /\ called = "is_fail_status_code"
    /\ pc = "Returned"
    /\ args.status = 599
    /\ outcome.val = PyBool(TRUE)

(***************************************************************************)
(* C20. Invocations are independent: in any sequence of predict calls of   *)
(* one process, with the same transform, two calls with equal events       *)
(* return equal results whatever was served in between, and a call never   *)
(* modifies the event it was given.                                        *)
(***************************************************************************)
C20_EqualEventsEqualResults ==
    /\ \A i, j \in 1..Len(history) :
           history[i].event = history[j].event => history[i].result = history[j].result
    /\ (called = "predict" /\ pc \in {"Rejected", "Succeeded", "Failed", "Raised"}) =>
           \A i \in 1..Len(history) :
               history[i].event = event => history[i].result = PredictResult

C20_InvocationsIndependent ==
    /\ []C20_EqualEventsEqualResults
    /\ [][pc' # "Received" => event' = event]_vars

C20_Witness ==
    /\ Len(history) = 2
    /\ history[1].event = event
    /\ history[2].event # event
    /\ called = "predict"
    /\ pc = "Succeeded"
    /\ history[1].result = Return(response)

(***************************************************************************)
(* Vocabulary of the properties C21 to C25.                                *)
(***************************************************************************)
\* validation accepted: the status of its envelope is a success
ValidationAccepted ==
    payload # NoEnvelope /\ payload.statusCode >= 200 /\ payload.statusCode <= 299

\* what a direct call handed to its caller: the value or the exception
DirectResult == IF pc = "Raised" THEN raised ELSE outcome

\* the value the text of the body parses to
ParsedBody == loads(EventBody.v).val

(***************************************************************************)
(* C21. On any runtime failure during the transform step of predict, a     *)
(* failure raised after the transform has returned (while its result is    *)
(* packaged into the success envelope) included, predict returns an        *)
(* envelope with status 500, the body "[]" and the failure's message as    *)
(* error, and nothing propagates.                                          *)
(***************************************************************************)
C21_AnyFailureEnvelope ==
    (/\ called = "predict"
     /\ pc \notin {"Received", "Accepted"}
     /\ ValidationAccepted
     /\ (TransformOutcome.kind = "raise" \/ dumps_raises(TransformOutcome.val))) =>
        /\ pc = "Failed"
        /\ response.statusCode = 500
        /\ response.body = <<"[", "]">>
        /\ ErrorMessageOf(response) =
               (IF TransformOutcome.kind = "raise" THEN TransformOutcome.msg
                ELSE "Circular reference detected")

(***************************************************************************)
(* C22. Within one invocation of predict the transform is invoked at most  *)
(* once, only after validation has completed with acceptance, and never    *)
(* again after a failure; the steps come in the order validate, transform, *)
(* final envelope.                                                         *)
(***************************************************************************)
C22_AttemptedOnceAfterAcceptance ==
    /\ calls <= 1
    /\ calls = 1 => /\ called = "predict"
                    /\ ValidationAccepted
                    /\ pc \in {"Succeeded", "Failed", "Raised"}
    /\ response # NoEnvelope => payload # NoEnvelope
    /\ pc = "Succeeded" => calls = 1

C22_OnePass ==
    /\ calls' > calls => (pc = "Accepted" /\ calls = 0 /\ calls' = 1)
    /\ pc \in {"Rejected", "Succeeded", "Failed"} => pc' \in {pc, "Received"}

C22_TransformAtMostOnce ==
    /\ []C22_AttemptedOnceAfterAcceptance
    /\ [][C22_OnePass]_vars

C22_Witness ==
    /\ called = "predict"
    /\ pc = "Failed"
    /\ transform.name = "mock_raise"
    /\ calls = 1
    /\ Len(log) = 1

(***************************************************************************)
(* C23. For every text body t that parses as JSON to a value v,            *)
(* validate_body(t) gives the same outcome as validate_body(v) when v is a *)
(* mapping, a list or a number; text that parses to null or to a JSON      *)
(* string is rejected with the empty payload.  (Text that parses to a      *)
(* boolean is the subject of C7.)                                          *)
(***************************************************************************)
C23_TextAsItsValue ==
    (called = "validate_body" /\ EventBody.t = "str" /\ ~Unparsable(EventBody)) =>
        /\ ParsedBody.t \in {"dict", "list", "int", "float"} =>
               DirectResult = validate_body(ParsedBody)
        /\ ParsedBody.t \in {"none", "str"} =>
               (pc = "Returned" /\ outcome.val = Rejection)

C23_Witness ==
    /\ called = "validate_body"
    /\ pc = "Returned"
    /\ EventBody = PyStr(<<"{", "\"", "d", "a", "t", "a", "\"", ":",
                           "[", "1", ",", "2", ",", "3", "]", "}">>)
    /\ outcome.val = Outcome(TRUE, PyList(<<PyInt(1), PyInt(2), PyInt(3)>>))

(***************************************************************************)
(* C24. When the event has no body key, predict raises the lookup failure  *)
(* of validate_event to its caller: no envelope is returned and the        *)
(* transform is not invoked.                                               *)
(***************************************************************************)
C24_MissingBodyRaises ==
    (called = "predict" /\ validator = TheValidator /\ ~HasKey(event, BODY)) =>
        /\ pc = "Raised"
        /\ raised.kind = "raise"
        /\ raised.type = "KeyError"
        /\ payload = NoEnvelope
        /\ response = NoEnvelope
        /\ calls = 0

C24_Witness ==
    /\ called = "predict"
    /\ validator = TheValidator
    /\ event = PyDict(<<>>)
    /\ pc = "Raised"
    /\ raised = Raise("KeyError", "'body'")

Places(e) == {i \in 1..Len(steps) : steps[i] = e}
PlacesOf(op) == {i \in 1..Len(steps) : steps[i].op = op}
\* the image URL, the role ARN and the function name of this deployment
ImageUrl == build_ecr_url(account_info.account_id, account_info.region,
                          activity_info.image_name, DEFAULT_TAG)
TheRoleArn == RoleArn(account_info.account_id, account_info.iam_role)
\* the REST APIs, endpoint resources and keys of the account that carry the
\* names of this deployment
NamedApis == {i \in 1..Len(gateway.apis) :
                  gateway.apis[i].name = activity_info.rest_api_name}
NamedResources(api) == {i \in 1..Len(gateway.resources) :
                            /\ gateway.resources[i].api = api
                            /\ gateway.resources[i].pathPart = activity_info.endpoint}
NamedKeys == {i \in 1..Len(gateway.keys) :
                  gateway.keys[i].name = activity_info.rest_api_name \o "-key"}
\* the entries of the trace that open and close the five steps
StepMarkers == SelectSeq(steps, LAMBDA e : /\ e.op \in {"call", "return"}
                                           /\ e.fn # "wait_for_lambda_deployment")
StepOrder == <<Called("do_ecr_update"), Returned("do_ecr_update"),
               Called("do_iam_update"), Returned("do_iam_update"),
               Called("do_lambda_update"), Returned("do_lambda_update"),
               Called("do_api_update"), Returned("do_api_update"),
               Called("do_api_allowance"), Returned("do_api_allowance")>>

(***************************************************************************)
(* C26. update_or_deploy_lambda_function: with a function of the given     *)
(* name it only updates the code with the image URL, without a create call *)
(* and without a wait; without one it calls create and then waits; no run  *)
(* issues both create and update.  The branch taken is the one of the      *)
(* function's existence when the step starts.                              *)
(***************************************************************************)
C26_OneBranch ==
    /\ PlacesOf("create_function") = {} \/ PlacesOf("update_function_code") = {}
    /\ \A i \in PlacesOf("lambda_exists") :
           /\ i < Len(steps)
           /\ IF steps[i].found
              THEN /\ steps[i + 1] = [op |-> "update_function_code",
                                      ImageUri |-> locals.routed_ecr_url]
                   /\ PlacesOf("create_function") = {}
                   /\ Places(Called("wait_for_lambda_deployment")) = {}
              ELSE /\ steps[i + 1].op = "create_function"
                   /\ steps[i + 1].ImageUri = locals.routed_ecr_url
                   /\ PlacesOf("update_function_code") = {}
                   /\ dpc # "Created" => Places(Called("wait_for_lambda_deployment")) = {i + 2}

C26_BranchOfExistence ==
    (dpc = "RoleReady" /\ dpc' # dpc) =>
        /\ PlacesOf("lambda_exists")' # {}
        /\ \A i \in PlacesOf("lambda_exists")' :
               steps'[i].found = (lambda_fn.state # "Absent")
        /\ lambda_fn.state # "Absent" => dpc' \in {"LambdaReady", "Raised"}
        /\ lambda_fn.state = "Absent" => dpc' = "Created"

C26_UpdateOrDeploy == []C26_OneBranch /\ [][C26_BranchOfExistence]_vars

\* a later run updates the function an earlier run created, and is past step 3
C26_Witness ==
    /\ runs > 0
    /\ dpc = "LambdaReady"
    /\ lambda_fn.role = TheRoleArn
    /\ PlacesOf("update_function_code") # {}
    /\ lambda_fn.image = ImageUrl

(***************************************************************************)
(* C27. try_attach_role_policy, with a role that exists and with one that  *)
(* does not: once it has been called on an account that grants access to   *)
(* IAM, it has returned the ARN of the role, the role exists and the       *)
(* managed policy is attached to it.                                       *)
(***************************************************************************)
C27_RoleArnWithPolicy ==
    (iam.allowed /\ Places(Called("do_iam_update")) # {}) =>
        /\ Places(Returned("do_iam_update")) # {}
        /\ locals.role_arn_ = TheRoleArn
        /\ iam.role
        /\ LAMBDA_POLICY_ARN \in iam.policies

(***************************************************************************)
(* C28. wait_for_lambda_deployment, when get_function returned a response, *)
(* ends in one of two ways: it returns, having seen a state other than     *)
(* Pending, or it raises TimeoutError, more than                           *)
(* LAMBDA_UPDATE_TIME_OUT_SECONDS after its start and with the state it    *)
(* saw last still Pending.  It ends with no other error.                   *)
(***************************************************************************)
C28_ReturnsOrTimesOut ==
    (/\ Places(Called("wait_for_lambda_deployment")) # {}
     /\ dpc \notin {"Polling"}
     /\ Places(Returned("wait_for_lambda_deployment")) = {}) =>
        (wait_locals.response_get.t = "dict" =>
             /\ dpc = "Raised"
             /\ deploy_raised.type = "TimeoutError"
             /\ wait_locals.bound
             /\ wait_locals.deployment_duration > LAMBDA_UPDATE_TIME_OUT_SECONDS
             /\ wait_locals.response_get.Configuration.State = "Pending")

(***************************************************************************)
(* C29. Successive runs of deploy_rest_api with the same names reuse what  *)
(* is there: the account never holds more than one REST API of the name,   *)
(* one endpoint resource of the path in it, one API key <api name>-key;    *)
(* a run that finds them creates none; and a step 4 or step 5 that has     *)
(* started has returned, the conflict of a method or of a permission that  *)
(* exists notwithstanding.                                                 *)
(***************************************************************************)
C29_NoDuplicates ==
    /\ Cardinality(NamedApis) <= 1
    /\ \A i \in NamedApis :
           Cardinality(NamedResources(gateway.apis[i].id)) <= 1
    /\ Cardinality(NamedKeys) <= 1
    /\ Places(Called("do_api_update")) # {} => Places(Returned("do_api_update")) # {}
    /\ Places(Called("do_api_allowance")) # {} =>
           Places(Returned("do_api_allowance")) # {}

C29_Reused ==
    /\ NamedApis # {} => gateway'.apis = gateway.apis
    /\ (\E i \in NamedApis : NamedResources(gateway.apis[i].id) # {}) =>
           gateway'.resources = gateway.resources
    /\ NamedKeys # {} => gateway'.keys = gateway.keys

C29_ResourcesReused == []C29_NoDuplicates /\ [][C29_Reused]_vars

\* a re-run has gone through steps 4 and 5 on the API of an earlier run: it
\* created nothing and met the conflicts of the method and of the permission
C29_Witness ==
    /\ runs > 0
    /\ dpc = "Deployed"
    /\ PlacesOf("create_rest_api") = {}
    /\ PlacesOf("create_resource") = {}
    /\ PlacesOf("create_api_key") = {}
    /\ \E i \in PlacesOf("put_method") : steps[i].conflict
    /\ lambda_fn.permission # NoName
    /\ Cardinality(NamedApis) = 1
    /\ Len(gateway.plans) > 1

(***************************************************************************)
(* C30. deploy_api_endpoint takes its five steps in order, each after the  *)
(* return of the one before: image, role, function, gateway, permission.   *)
(* The function is created or updated with the image URL step 1 returned,  *)
(* and created with the role ARN step 2 returned; the permission is        *)
(* granted to the ARN of the API step 4 returned.                          *)
(***************************************************************************)
C30_StepsInOrder ==
    /\ Len(StepMarkers) <= Len(StepOrder)
    /\ StepMarkers = SubSeq(StepOrder, 1, Len(StepMarkers))
    /\ \A i \in PlacesOf("create_function") \cup PlacesOf("update_function_code") :
           /\ steps[i].ImageUri = ImageUrl
           /\ steps[i].ImageUri = locals.routed_ecr_url
    /\ \A i \in PlacesOf("create_function") :
           /\ steps[i].Role = TheRoleArn
           /\ steps[i].Role = locals.role_arn_
    /\ \A i \in PlacesOf("add_permission") :
           /\ steps[i].SourceArn = locals.api_deployment_reponse.arn
           /\ \E a \in NamedApis :
                  steps[i].SourceArn = build_source_arn(account_info.region,
                                                        account_info.account_id,
                                                        gateway.apis[a].id)

\* a run that created the function has taken all five steps
C30_Witness ==
    /\ dpc = "Deployed"
    /\ StepMarkers = StepOrder
    /\ PlacesOf("create_function") # {}
    /\ lambda_fn.image = ImageUrl
    /\ lambda_fn.role = TheRoleArn
    /\ lambda_fn.permission = locals.api_deployment_reponse.arn

====
